---- MODULE Spec2Model ----
(***************************************************************************)
(* Hookshot webhook delivery.  Two sender variants are modelled:           *)
(*   "ctx"  the context-aware client (functional options, cenkalti/backoff *)
(*          retry loop, sentinel errors)                                   *)
(*   "cfg"  the Config-struct client (hand written for-loop with sleeps)   *)
(* One send is followed from SendPayload to the returned Response.  Time   *)
(* is counted in milliseconds.                                             *)
(***************************************************************************)
EXTENDS Integers, Sequences, FiniteSets, TLC

VARIABLES
    client,            \* which sender variant this behaviour runs
    config,            \* Client.config after NewClient
    ctxDone,           \* the caller's context is cancelled / past its deadline
    now,               \* wall clock, ms
    pc,                \* position of the sending goroutine
    jsonData,          \* json.Marshal(payload)
    msgID,
    signingTimestamp,
    signature,
    lastErr,
    lastStatusCode,
    opErr,             \* what the last operation() call returned to Retry
    retErr,            \* what backoff.Retry returned
    numTries,          \* backOffTries.numTries
    currentInterval,   \* ExponentialBackOff.currentInterval
    timer,             \* the running backoff timer: [d, fired]
    attempt,           \* loop variable of the Config-struct client
    requests,          \* HTTP requests put on the wire, in order
    outcomes,          \* outcome of every attempt, in order
    sleeps,            \* backoff sleeps started, in order
    resp,              \* the Response returned to the caller
    fatal,             \* "none", or which pre-send step failed
    nextUUID,          \* source of uuid.New()
    signCalls,         \* number of Signer.Sign calls
    ids,               \* message ids drawn by the sends of this process, in order
    peer               \* the locals of a second SendPayload call on the same Client

VARIABLES
    rx,                \* which receiver this behaviour runs, "none" for a sender
    rxConfig,          \* WebhookHandler.config / the receiver's SECRET
    handlers,          \* WebhookHandler.handlers: event -> list of handlers
    wildcardHandlers,  \* WebhookHandler.wildcardHandlers
    regOps,            \* number of on/off/onAll/offAll calls made
    rnow,              \* Date.now() at the receiver, ms
    req,               \* the request being served: headers and body
    rxpc,              \* position of the request callback
    bodyRead,          \* the request body has been read
    verifyCalls,       \* number of signature verifications started
    rxPayload,         \* the parsed payload
    allHandlers,       \* executeHandlers: the list being dispatched
    idx,               \* executeHandlers: next position in allHandlers
    hstate,            \* per position: "new", "returned", "threw", "pending",
                       \* "resolved", "rejected"
    calls,             \* handlers invoked, in order
    args,              \* the arguments of each invocation, in order
    errCalls,          \* onHandlerError invocations, in order
    dispatch,          \* state of the promise executeHandlers returned
    rxResp,            \* the HTTP response of the receiver
    served,            \* number of requests the route has received
    prev               \* what the route did with the request before this one

txVars == <<client, config, ctxDone, now, pc, jsonData, msgID, signingTimestamp,
          signature, lastErr, lastStatusCode, opErr, retErr, numTries,
          currentInterval, timer, attempt, requests, outcomes, sleeps, resp,
          fatal, nextUUID, signCalls, ids, peer>>

rxVars == <<rx, rxConfig, handlers, wildcardHandlers, regOps, rnow, req, rxpc,
            bodyRead, verifyCalls, rxPayload, allHandlers, idx, hstate, calls, args,
            errCalls, dispatch, rxResp, served, prev>>

vars == <<txVars, rxVars>>

-----------------------------------------------------------------------------
(* Bounds *)

MaxRetriesCtx == 3      \* largest MaxRetries option explored, context-aware client
MaxRetriesCfg == 6      \* largest Config.MaxRetries explored, Config-struct client
RecvTime == 1000000     \* Date.now() at the receiver, ms
MaxRegOps == 3          \* on/off/onAll/offAll calls before the request
E2ERegOps == 2          \* registrations before the send, end to end
E2ERetries == 2         \* largest MaxRetries end to end
MaxDelay == 200000      \* longest delivery delay end to end, ms
StartTime == 5400       \* clock reading when the send starts
MaxTriggers == 2        \* requests to the trigger routes of go-webhook-server

-----------------------------------------------------------------------------
(* Program constants *)

DefaultMaxRetries == 3
DefaultMaxInterval == 30000
InitialInterval == 1000
Second == 1000
FreshnessWindow == 300000   \* 5 * 60 * 1000 ms, simple-scheme receivers
WebhookTolerance == 300     \* seconds, svix Webhook.verify

\* HTTP statuses a receiver may answer with: one below 200, the ends of
\* [200,400), the ends of [400,500), and two server errors.
Statuses == {101, 200, 399, 400, 499, 500, 503}

Secrets == {"whsec_A"}
Events == {"order.created"}
\* "chan" stands for a Go value json.Marshal rejects (channel, func, NaN ...)
DataValues == {"order", "chan"}

-----------------------------------------------------------------------------
(* Errors.  wraps is the sentinel errors.Is finds; "nil" is the nil error. *)

Err(w, c, s) == [wraps |-> w, cause |-> c, status |-> s]
Nil == Err("nil", "", 0)
ErrClientError == "ErrClientError"
ErrServerError == "ErrServerError"
ErrNetwork == "ErrNetwork"
errorsIs(e, target) == e.wraps = target

\* ctx.Err()
CtxErr == Err("context", "context canceled", 0)

\* the zero value of Response.MessageID: the field was not set
NoMessageID == <<>>

\* Response of the context-aware client
Response(success, statusCode, messageID, error) ==
    [Success |-> success, StatusCode |-> statusCode,
     MessageID |-> messageID, Error |-> error]
\* Response of the Config-struct client
ResponseCfg(success, messageID, sig, error) ==
    [Success |-> success, MessageID |-> messageID,
     Signature |-> sig, Error |-> error]
\* nothing returned yet
NoResponse == [pending |-> TRUE]

NetErr == [kind |-> "neterr", code |-> 0]
Status(s) == [kind |-> "status", code |-> s]
Outcomes == {NetErr} \cup {Status(s) : s \in Statuses}

-----------------------------------------------------------------------------
(* Pure helpers *)

Last(q) == q[Len(q)]

\* time.Time.Unix(): whole seconds
Unix(t) == t \div Second

\* json.Marshal(payload)
Marshal(p) ==
    IF p.Data = "chan"
    THEN [ok |-> FALSE, bytes |-> <<>>]
    ELSE [ok |-> TRUE, bytes |-> <<"event", p.Event, "timestamp", p.Timestamp, "data", p.Data>>]

\* svix Webhook.Sign: HMAC over "msgId.unixSeconds.payload"
Sign(secret, id, ts, body) == <<"v1", secret, id, Unix(ts), body>>

-----------------------------------------------------------------------------
(* Construction *)

\* WithMaxInterval values explored next to the default
MaxIntervals == {DefaultMaxInterval, 2 * Second}

\* NewClient(targetURL, secret, opts...) of the context-aware client: both
\* strings are non-empty here; urlValid says whether TargetURL parses.
NewClient(secret, maxRetries, maxInterval, urlValid) ==
    [Secret |-> secret, MaxRetries |-> maxRetries,
     MaxInterval |-> maxInterval, urlValid |-> urlValid]

\* The options a caller may pass: MaxRetries is a uint64.
CtxConfigs ==
    { NewClient(s, n, mi, u) :
        s \in Secrets, n \in (0..MaxRetriesCtx) \cup {DefaultMaxRetries},
        mi \in MaxIntervals, u \in BOOLEAN }

-----------------------------------------------------------------------------
(* The context-aware client *)

IdleTimer == [d |-> 0, fired |-> FALSE]

\* Mutant: the timestamp header and the signature are made afresh from the
\* clock on every attempt.
BuildRequest_Resign ==
    [ctype |-> "application/json",
     id |-> msgID,
     ts |-> <<"unix", Unix(now)>>,
     sig |-> Sign(config.Secret, msgID, now, jsonData),
     body |-> jsonData]

\* req.Header.Set(...) and the body reader of one attempt
BuildRequest ==
    [ctype |-> "application/json",
     id |-> msgID,
     ts |-> <<"unix", Unix(signingTimestamp)>>,
     sig |-> signature,
     body |-> jsonData]

\* The early returns of SendPayload: "return" after a failed json.Marshal
\* or a failed Sign, otherwise on to sendWithRetry.  Mutant first: the
\* error of Sign is dropped.
SendPayloadNext_IgnoreSignErr(marshalOk, signOk) ==
    IF ~marshalOk THEN "return" ELSE "sendWithRetry"

SendPayloadNext(marshalOk, signOk) ==
    IF ~marshalOk THEN "return"
    ELSE IF ~signOk THEN "return"
    ELSE "sendWithRetry"

\* which step, if any, failed before the first attempt
FatalStep(marshalOk, signOk) ==
    IF ~marshalOk THEN "marshal" ELSE IF ~signOk THEN "sign" ELSE "none"

FatalErr(marshalOk) ==
    IF ~marshalOk THEN Err("json", "failed to marshal payload", 0)
    ELSE Err("svix", "failed to sign", 0)

\* Send / SendPayload: marshal, draw the message id, fix the signing
\* timestamp, sign once, hand over to sendWithRetry.
SendPayload ==
    /\ client = "ctx"
    /\ pc = "idle"
    /\ \E ev \in Events, d \in DataValues, signOk \in BOOLEAN :
         LET payload == [Event |-> ev, Timestamp |-> now, Data |-> d]
             m == Marshal(payload)
             id == <<"msg_", nextUUID>>
         IN  /\ fatal' = FatalStep(m.ok, signOk)
             /\ IF m.ok
                THEN /\ jsonData' = m.bytes
                     /\ msgID' = id
                     /\ ids' = Append(ids, id)
                     /\ nextUUID' = nextUUID + 1
                     /\ signingTimestamp' = now
                     /\ signCalls' = signCalls + 1
                     /\ signature' = IF signOk THEN Sign(config.Secret, id, now, m.bytes)
                                     ELSE <<>>
                ELSE UNCHANGED <<jsonData, msgID, signingTimestamp, signature,
                                 nextUUID, signCalls, ids>>
             /\ IF SendPayloadNext(m.ok, signOk) = "return"
                THEN /\ resp' = Response(FALSE, 0, NoMessageID, FatalErr(m.ok))
                     /\ pc' = "done"
                ELSE /\ pc' = "sendWithRetry"
                     /\ UNCHANGED resp
    /\ UNCHANGED <<rxVars, peer, client, config, ctxDone, now, lastErr, lastStatusCode, opErr,
                   retErr, numTries, currentInterval, timer, attempt, requests,
                   outcomes, sleeps>>

\* Mutant: the first attempt is not counted against MaxRetries.
MaxTries_NoDecrement(maxRetries) == maxRetries

\* retries := MaxRetries; if retries > 0 { retries-- }
MaxTries(maxRetries) == IF maxRetries > 0 THEN maxRetries - 1 ELSE 0

\* sendWithRetry up to the call of backoff.Retry, and Retry's b.Reset()
sendWithRetry ==
    /\ client = "ctx"
    /\ pc = "sendWithRetry"
    /\ lastErr' = Nil
    /\ lastStatusCode' = 0
    /\ currentInterval' = InitialInterval
    /\ numTries' = 0
    /\ pc' = "operation"
    /\ UNCHANGED <<rxVars, peer, ids, client, config, ctxDone, now, jsonData, msgID,
                   signingTimestamp, signature, opErr, retErr, timer, attempt,
                   requests, outcomes, sleeps, resp, fatal, nextUUID, signCalls>>

\* operation(): build the request and enter c.http.Do.  An unparsable URL
\* fails in NewRequestWithContext; a context that is already done makes Do
\* return its error before anything is written.
operation ==
    /\ client = "ctx"
    /\ pc = "operation"
    /\ IF ~config.urlValid
       THEN /\ lastErr' = Err(ErrNetwork, "new request", 0)
            /\ opErr' = [err |-> lastErr', permanent |-> FALSE]
            /\ outcomes' = Append(outcomes, NetErr)
            /\ pc' = "Retry"
            /\ UNCHANGED requests
       ELSE IF ctxDone
       THEN /\ lastErr' = Err(ErrNetwork, "context canceled", 0)
            /\ opErr' = [err |-> lastErr', permanent |-> FALSE]
            /\ outcomes' = Append(outcomes, NetErr)
            /\ pc' = "Retry"
            /\ UNCHANGED requests
       ELSE /\ requests' = Append(requests, BuildRequest)
            /\ pc' = "Do"
            /\ UNCHANGED <<lastErr, opErr, outcomes>>
    /\ UNCHANGED <<rxVars, peer, ids, client, config, ctxDone, now, jsonData, msgID,
                   signingTimestamp, signature, lastStatusCode, retErr,
                   numTries, currentInterval, timer, attempt, sleeps, resp,
                   fatal, nextUUID, signCalls>>

\* Mutant: a 4xx answer is handed to Retry as an ordinary error.
Classify_RetryClientError(o, prevErr, prevStatus) ==
    IF o.kind = "neterr"
    THEN [lastErr |-> Err(ErrNetwork, "transport", 0), lastStatusCode |-> prevStatus,
          ret |-> "retry"]
    ELSE IF o.code >= 400
    THEN [lastErr |-> Err(IF o.code < 500 THEN ErrClientError ELSE ErrServerError,
                          "status", o.code),
          lastStatusCode |-> o.code, ret |-> "retry"]
    ELSE [lastErr |-> prevErr, lastStatusCode |-> o.code, ret |-> "nil"]

\* What operation() makes of the result of c.http.Do: the new lastErr, the
\* new lastStatusCode and the error handed to Retry.
Classify(o, prevErr, prevStatus) ==
    IF o.kind = "neterr"
    THEN [lastErr |-> Err(ErrNetwork, "transport", 0), lastStatusCode |-> prevStatus,
          ret |-> "retry"]
    ELSE IF o.code >= 400 /\ o.code < 500
    THEN [lastErr |-> Err(ErrClientError, "status", o.code), lastStatusCode |-> o.code,
          ret |-> "permanent"]
    ELSE IF o.code >= 500
    THEN [lastErr |-> Err(ErrServerError, "status", o.code), lastStatusCode |-> o.code,
          ret |-> "retry"]
    ELSE [lastErr |-> prevErr, lastStatusCode |-> o.code, ret |-> "nil"]

\* c.http.Do returns: a transport error, or a response with some status.
\* (With the context cancelled meanwhile either may still come back.)
DoReturns(o) ==
    /\ client = "ctx"
    /\ pc = "Do"
    /\ LET c == Classify(o, lastErr, lastStatusCode)
       IN  /\ outcomes' = Append(outcomes, o)
           /\ lastErr' = c.lastErr
           /\ lastStatusCode' = c.lastStatusCode
           /\ opErr' = IF c.ret = "nil"
                       THEN [err |-> Nil, permanent |-> FALSE]
                       ELSE [err |-> c.lastErr, permanent |-> c.ret = "permanent"]
    /\ pc' = "Retry"
    /\ UNCHANGED <<rxVars, peer, ids, client, config, ctxDone, now, jsonData, msgID,
                   signingTimestamp, signature, retErr, numTries,
                   currentInterval, timer, attempt, requests, sleeps, resp,
                   fatal, nextUUID, signCalls>>

\* the receiver is not modelled: any outcome is possible
Do == \E o \in Outcomes : DoReturns(o)

\* Mutant: the backoff is not wrapped with the context.
NextBackOff_IgnoreCtx(ctxIsDone, maxTries, tries) ==
    IF maxTries = 0 THEN "Stop"
    ELSE IF maxTries <= tries THEN "Stop"
    ELSE "Next"

\* backOffContext / backOffTries NextBackOff: Stop when the context is done
\* or the retry budget is used up.
NextBackOff(ctxIsDone, maxTries, tries) ==
    IF ctxIsDone THEN "Stop"
    ELSE IF maxTries = 0 THEN "Stop"
    ELSE IF maxTries <= tries THEN "Stop"
    ELSE "Next"

\* ExponentialBackOff with RandomizationFactor 0.5: the lowest, the middle
\* and the highest value the jitter can give around cur.
RandomValueFromInterval(cur) == {cur - cur \div 2, cur, cur + cur \div 2}

\* ExponentialBackOff.incrementCurrentInterval, Multiplier 1.5
IncrementCurrentInterval(cur, maxInterval) ==
    IF 3 * cur >= 2 * maxInterval THEN maxInterval ELSE (3 * cur) \div 2

\* backoff.Retry after operation() returned: done on nil, done on a
\* Permanent error, otherwise ask for the next interval and start the timer.
Retry ==
    /\ client = "ctx"
    /\ pc = "Retry"
    /\ IF opErr.err = Nil
       THEN /\ retErr' = Nil
            /\ pc' = "return"
            /\ UNCHANGED <<numTries, currentInterval, timer, sleeps>>
       ELSE IF opErr.permanent
       THEN /\ retErr' = opErr.err
            /\ pc' = "return"
            /\ UNCHANGED <<numTries, currentInterval, timer, sleeps>>
       ELSE IF NextBackOff(ctxDone, MaxTries(config.MaxRetries), numTries) = "Stop"
       THEN /\ retErr' = IF ctxDone THEN CtxErr ELSE opErr.err
            /\ pc' = "return"
            /\ UNCHANGED <<numTries, currentInterval, timer, sleeps>>
       ELSE /\ \E d \in RandomValueFromInterval(currentInterval) :
                 /\ timer' = [d |-> d, fired |-> FALSE]
                 /\ sleeps' = Append(sleeps, d)
            /\ numTries' = numTries + 1
            /\ currentInterval' = IncrementCurrentInterval(currentInterval, config.MaxInterval)
            /\ pc' = "timer"
            /\ UNCHANGED retErr
    /\ UNCHANGED <<rxVars, peer, ids, client, config, ctxDone, now, jsonData, msgID,
                   signingTimestamp, signature, lastErr, lastStatusCode, opErr,
                   attempt, requests, outcomes, resp, fatal, nextUUID, signCalls>>

\* the backoff interval elapses
TimerFires ==
    /\ client = "ctx"
    /\ pc = "timer"
    /\ ~timer.fired
    /\ timer' = [timer EXCEPT !.fired = TRUE]
    /\ now' = now + timer.d
    /\ UNCHANGED <<rxVars, peer, ids, client, config, ctxDone, pc, jsonData, msgID,
                   signingTimestamp, signature, lastErr, lastStatusCode, opErr,
                   retErr, numTries, currentInterval, attempt, requests,
                   outcomes, sleeps, resp, fatal, nextUUID, signCalls>>

\* select { case <-t.C(): } : next attempt
WakeTimer ==
    /\ client = "ctx"
    /\ pc = "timer"
    /\ timer.fired
    /\ timer' = IdleTimer
    /\ pc' = "operation"
    /\ UNCHANGED <<rxVars, peer, ids, client, config, ctxDone, now, jsonData, msgID,
                   signingTimestamp, signature, lastErr, lastStatusCode, opErr,
                   retErr, numTries, currentInterval, attempt, requests,
                   outcomes, sleeps, resp, fatal, nextUUID, signCalls>>

\* select { case <-ctx.Done(): return ctx.Err() }
WakeCancelled ==
    /\ client = "ctx"
    /\ pc = "timer"
    /\ ctxDone
    /\ timer' = IdleTimer
    /\ retErr' = CtxErr
    /\ pc' = "return"
    /\ UNCHANGED <<rxVars, peer, ids, client, config, ctxDone, now, jsonData, msgID,
                   signingTimestamp, signature, lastErr, lastStatusCode, opErr,
                   numTries, currentInterval, attempt, requests, outcomes,
                   sleeps, resp, fatal, nextUUID, signCalls>>

\* Mutant: the failure branch is taken whenever some attempt left an error.
ResponseOf_StaleLastErr(err, lErr, lStatus, id) ==
    IF lErr # Nil
    THEN Response(FALSE, lStatus, NoMessageID, lErr)
    ELSE Response(TRUE, lStatus, id, Nil)

\* if err := backoff.Retry(...); err != nil { failure } else { success }
ResponseOf(err, lErr, lStatus, id) ==
    IF err # Nil
    THEN Response(FALSE, lStatus, NoMessageID, lErr)
    ELSE Response(TRUE, lStatus, id, Nil)

Return ==
    /\ client = "ctx"
    /\ pc = "return"
    /\ resp' = ResponseOf(retErr, lastErr, lastStatusCode, msgID)
    /\ pc' = "done"
    /\ UNCHANGED <<rxVars, peer, ids, client, config, ctxDone, now, jsonData, msgID,
                   signingTimestamp, signature, lastErr, lastStatusCode, opErr,
                   retErr, numTries, currentInterval, timer, attempt, requests,
                   outcomes, sleeps, fatal, nextUUID, signCalls>>

\* the caller cancels the context, or its deadline passes
Cancel ==
    /\ client = "ctx"
    /\ ~ctxDone
    /\ pc # "done"
    /\ ctxDone' = TRUE
    /\ UNCHANGED <<rxVars, peer, ids, client, config, now, pc, jsonData, msgID, signingTimestamp,
                   signature, lastErr, lastStatusCode, opErr, retErr, numTries,
                   currentInterval, timer, attempt, requests, outcomes, sleeps,
                   resp, fatal, nextUUID, signCalls>>

-----------------------------------------------------------------------------
(* The Config-struct client *)

\* NewClient(cfg): TargetURL and Secret non-empty; MaxRetries 0 becomes 3
NewClientCfg(secret, maxRetries, urlValid) ==
    [Secret |-> secret,
     MaxRetries |-> IF maxRetries = 0 THEN DefaultMaxRetries ELSE maxRetries,
     urlValid |-> urlValid]

\* Config.MaxRetries is an int: negative values pass NewClient
CfgConfigs ==
    { NewClientCfg(s, n, u) :
        s \in Secrets, n \in (-1)..MaxRetriesCfg, u \in BOOLEAN }

\* msgID := "msg_" + time.Now().Format("20060102150405.000"): the clock to the ms
MsgIDCfg(t) == <<"msg_", "time", t>>

BuildRequestCfg ==
    [ctype |-> "application/json",
     id |-> msgID,
     ts |-> <<"rfc3339", Unix(signingTimestamp)>>,
     sig |-> signature,
     body |-> jsonData]

SendPayloadCfg ==
    /\ client = "cfg"
    /\ pc = "idle"
    /\ \E ev \in Events, d \in DataValues, signOk \in BOOLEAN :
         LET payload == [Event |-> ev, Timestamp |-> now, Data |-> d]
             m == Marshal(payload)
             id == MsgIDCfg(now)
         IN  /\ fatal' = FatalStep(m.ok, signOk)
             /\ IF m.ok
                THEN /\ jsonData' = m.bytes
                     /\ msgID' = id
                     /\ ids' = Append(ids, id)
                     /\ signingTimestamp' = now
                     /\ signCalls' = signCalls + 1
                     /\ signature' = IF signOk THEN Sign(config.Secret, id, now, m.bytes)
                                     ELSE <<>>
                ELSE UNCHANGED <<jsonData, msgID, signingTimestamp, signature, signCalls,
                                 ids>>
             /\ IF SendPayloadNext(m.ok, signOk) = "return"
                THEN /\ resp' = ResponseCfg(FALSE, NoMessageID, "", FatalErr(m.ok))
                     /\ pc' = "done"
                ELSE /\ pc' = "loop"
                     /\ UNCHANGED resp
    /\ lastErr' = Nil
    /\ attempt' = 0
    /\ UNCHANGED <<rxVars, peer, client, config, ctxDone, now, lastStatusCode, opErr, retErr,
                   numTries, currentInterval, timer, requests, outcomes, sleeps,
                   nextUUID>>

\* for attempt := 0; attempt < MaxRetries; attempt++ : the loop test, the
\* request construction and the entry into c.http.Do; after the loop the
\* failure Response.
sendWithRetryCfg ==
    /\ client = "cfg"
    /\ pc = "loop"
    /\ IF attempt < config.MaxRetries
       THEN IF ~config.urlValid
            THEN /\ lastErr' = Err("none", "new request", 0)
                 /\ attempt' = attempt + 1
                 /\ outcomes' = Append(outcomes, NetErr)
                 /\ UNCHANGED <<pc, requests, resp>>
            ELSE /\ requests' = Append(requests, BuildRequestCfg)
                 /\ pc' = "DoCfg"
                 /\ UNCHANGED <<lastErr, attempt, outcomes, resp>>
       ELSE /\ resp' = ResponseCfg(FALSE, NoMessageID, "", lastErr)
            /\ pc' = "done"
            /\ UNCHANGED <<lastErr, attempt, outcomes, requests>>
    /\ UNCHANGED <<rxVars, peer, ids, client, config, ctxDone, now, jsonData, msgID,
                   signingTimestamp, signature, lastStatusCode, opErr, retErr,
                   numTries, currentInterval, timer, sleeps, fatal, nextUUID,
                   signCalls>>

\* backoff := time.Duration(1<<attempt) * time.Second, in ms.  (Go computes
\* it in int64 nanoseconds; it does not wrap for attempt < 34.)
BackoffCfg(a) == (2 ^ a) * Second

\* is this outcome followed by a sleep and the next round of the loop?
FailedCfg(o) == o.kind = "neterr" \/ o.code >= 400

\* c.http.Do returns
DoCfg ==
    /\ client = "cfg"
    /\ pc = "DoCfg"
    /\ \E o \in Outcomes :
         /\ outcomes' = Append(outcomes, o)
         /\ IF FailedCfg(o)
            THEN /\ lastErr' = IF o.kind = "neterr"
                                THEN Err("none", "transport", 0)
                                ELSE Err("none", "server returned", o.code)
                 /\ timer' = [d |-> BackoffCfg(attempt), fired |-> FALSE]
                 /\ sleeps' = Append(sleeps, BackoffCfg(attempt))
                 /\ pc' = "Sleep"
                 /\ UNCHANGED resp
            ELSE /\ resp' = ResponseCfg(TRUE, msgID, signature, Nil)
                 /\ pc' = "done"
                 /\ UNCHANGED <<lastErr, timer, sleeps>>
    /\ UNCHANGED <<rxVars, peer, ids, client, config, ctxDone, now, jsonData, msgID,
                   signingTimestamp, signature, lastStatusCode, opErr, retErr,
                   numTries, currentInterval, attempt, requests, fatal,
                   nextUUID, signCalls>>

\* time.Sleep(backoff) returns; continue
SleepCfg ==
    /\ client = "cfg"
    /\ pc = "Sleep"
    /\ now' = now + timer.d
    /\ timer' = IdleTimer
    /\ attempt' = attempt + 1
    /\ pc' = "loop"
    /\ UNCHANGED <<rxVars, peer, ids, client, config, ctxDone, jsonData, msgID, signingTimestamp,
                   signature, lastErr, lastStatusCode, opErr, retErr, numTries,
                   currentInterval, requests, outcomes, sleeps, resp, fatal,
                   nextUUID, signCalls>>

-----------------------------------------------------------------------------
(* Receivers: what a request carries *)

\* a header that was not sent (Headers.get gives null), and one sent empty
Absent == <<>>
Empty == <<"">>

\* !value in JavaScript: null and "" are both falsy
Missing(h) == h = Absent \/ h = Empty

\* the receivers that check the svix-* headers
SvixKinds == {"lib", "honoSvix"}

WrongSecret == "whsec_B"
RxIds == {<<"msg_", 1>>}
RegEvents == {"order.created", "user.deleted"}   \* events handlers are registered for
RxEvents == {"order.created", "payment.failed"}  \* events that arrive

\* request bodies: the serialisation of a payload, or text that is no JSON
Malformed == <<"{not json">>
RxBodies ==
    { Marshal([Event |-> e, Timestamp |-> RecvTime, Data |-> "order"]).bytes :
        e \in RxEvents }
    \cup {Malformed}

\* JSON.parse(rawBody): throws a SyntaxError on text that is no JSON
JSONParse(body) ==
    IF Len(body) = 6 /\ body[1] = "event"
    THEN [ok |-> TRUE,
          value |-> [event |-> body[2], timestamp |-> body[4], data |-> body[6]]]
    ELSE [ok |-> FALSE, value |-> [event |-> "", timestamp |-> 0, data |-> ""]]

NaN == [nan |-> TRUE, v |-> 0]
Num(n) == [nan |-> FALSE, v |-> n]

NoRxResp == [status |-> 0]
Pending(hs) == {i \in DOMAIN hs : hs[i] = "pending"}

-----------------------------------------------------------------------------
(* WebhookHandler (lib/webhook.ts): registry *)

HandlerIds == {"h1", "h2"}

\* new WebhookHandler(config): the secret is required
NewWebhookHandler(secret, parallel) ==
    [secret |-> secret, parallelExecution |-> parallel]

LibConfigs == {NewWebhookHandler(s, p) : s \in Secrets, p \in BOOLEAN}

\* Array.prototype.indexOf, positions counted from 1 and 0 for "not found"
IndexOf(list, h) ==
    IF \E i \in DOMAIN list : list[i] = h
    THEN CHOOSE i \in DOMAIN list :
            list[i] = h /\ \A j \in DOMAIN list : list[j] = h => i <= j
    ELSE 0

\* Array.prototype.splice(i, 1)
Splice(list, i) == SubSeq(list, 1, i - 1) \o SubSeq(list, i + 1, Len(list))

Registering == rx = "lib" /\ regOps < MaxRegOps

RequestVars == <<rnow, req, rxpc, bodyRead, verifyCalls, rxPayload, allHandlers,
                 idx, hstate, calls, args, errCalls, dispatch, rxResp>>

\* Mutant: splice is called with whatever indexOf gave; splice(-1, 1)
\* removes the last element.
Remove_Unguarded(list, h) ==
    IF IndexOf(list, h) > 0 THEN Splice(list, IndexOf(list, h))
    ELSE Splice(list, Len(list))

\* const idx = list.indexOf(h); if (idx > -1) list.splice(idx, 1)
Remove(list, h) ==
    IF IndexOf(list, h) > 0 THEN Splice(list, IndexOf(list, h)) ELSE list

\* the Map has an entry for the event only once on() was called for it
on(event, handler) ==
    /\ Registering
    /\ handlers' = IF event \in DOMAIN handlers
                   THEN [handlers EXCEPT ![event] = Append(@, handler)]
                   ELSE handlers @@ (event :> <<handler>>)
    /\ regOps' = regOps + 1
    /\ UNCHANGED <<txVars, prev, served, rx, rxConfig, wildcardHandlers, RequestVars>>

\* Mutant: the dispatch in progress iterates the registry's own array, so
\* the removal reaches it.
off_Live(event, handler) ==
    /\ Registering
    /\ handlers' = IF event \in DOMAIN handlers
                   THEN [handlers EXCEPT ![event] = Remove(@, handler)]
                   ELSE handlers
    /\ allHandlers' = Remove(allHandlers, handler)
    /\ regOps' = regOps + 1
    /\ UNCHANGED <<txVars, prev, served, rx, rxConfig, wildcardHandlers, rnow, req,
                   rxpc, bodyRead, verifyCalls, rxPayload, idx, hstate, calls, args,
                   errCalls, dispatch, rxResp>>

\* if (handlers) { ... }: no entry for the event, nothing to do
off(event, handler) ==
    /\ Registering
    /\ handlers' = IF event \in DOMAIN handlers
                   THEN [handlers EXCEPT ![event] = Remove(@, handler)]
                   ELSE handlers
    /\ regOps' = regOps + 1
    /\ UNCHANGED <<txVars, prev, served, rx, rxConfig, wildcardHandlers, RequestVars>>

onAll(handler) ==
    /\ Registering
    /\ wildcardHandlers' = Append(wildcardHandlers, handler)
    /\ regOps' = regOps + 1
    /\ UNCHANGED <<txVars, prev, served, rx, rxConfig, handlers, RequestVars>>

offAll(handler) ==
    /\ Registering
    /\ wildcardHandlers' = Remove(wildcardHandlers, handler)
    /\ regOps' = regOps + 1
    /\ UNCHANGED <<txVars, prev, served, rx, rxConfig, handlers, RequestVars>>

-----------------------------------------------------------------------------
(* WebhookHandler (lib/webhook.ts): verification *)

\* parseInt(header, 10) of the svix-timestamp header
ParseInt(h) == IF Len(h) = 2 /\ h[1] = "unix" THEN Num(h[2]) ELSE NaN

\* svix-timestamp header values: too old, oldest allowed, now, too new, text
SvixTimestamps ==
    { <<"unix", s>> : s \in { Unix(RecvTime) - WebhookTolerance - 1,
                              Unix(RecvTime) - WebhookTolerance,
                              Unix(RecvTime),
                              Unix(RecvTime) + WebhookTolerance + 1 } }
    \cup {<<"garbage", 0>>}

Junk == <<"v1", "junk">>

\* svix-signature header values for a request with this id and timestamp:
\* signatures made with the right or a wrong secret over any body
SvixSignatures(id, ts) ==
    IF Missing(id) \/ ParseInt(ts).nan
    THEN {Junk}
    ELSE { Sign(k, id, ParseInt(ts).v * Second, b) :
             k \in Secrets \cup {WrongSecret}, b \in RxBodies } \cup {Junk}

SvixRequests ==
    UNION { { [id |-> i, ts |-> t, sig |-> s, body |-> b] :
                s \in SvixSignatures(i, t) \cup {Absent, Empty}, b \in RxBodies } :
            i \in RxIds \cup {Absent, Empty},
            t \in SvixTimestamps \cup {Absent, Empty} }

VerifyOk(p) == [ok |-> TRUE, payload |-> p, error |-> ""]
VerifyFail(msg) ==
    [ok |-> FALSE, payload |-> JSONParse(Malformed).value, error |-> msg]

\* Mutant: a message id that was accepted before is rejected.
SvixVerify_SeenBefore(secret, r, tnow) ==
    LET ts == ParseInt(r.ts)
        j == JSONParse(r.body)
    IN  IF prev.accepted /\ prev.req.id = r.id
        THEN VerifyFail("Message already processed")
        ELSE IF Missing(r.id) \/ Missing(r.ts) \/ Missing(r.sig)
        THEN VerifyFail("Missing required headers")
        ELSE IF ts.nan
        THEN VerifyFail("Invalid Signature Headers")
        ELSE IF Unix(tnow) - ts.v > WebhookTolerance
        THEN VerifyFail("Message timestamp too old")
        ELSE IF ts.v > Unix(tnow) + WebhookTolerance
        THEN VerifyFail("Message timestamp too new")
        ELSE IF r.sig # Sign(secret, r.id, ts.v * Second, r.body)
        THEN VerifyFail("No matching signature found")
        ELSE IF ~j.ok
        THEN VerifyFail("SyntaxError")
        ELSE VerifyOk(j.value)

\* svix Webhook.verify(payload, headers): required headers, timestamp within
\* the tolerance, a matching signature over "id.timestamp.payload", and then
\* JSON.parse(payload)
SvixVerify(secret, r, tnow) ==
    LET ts == ParseInt(r.ts)
        j == JSONParse(r.body)
    IN  IF Missing(r.id) \/ Missing(r.ts) \/ Missing(r.sig)
        THEN VerifyFail("Missing required headers")
        ELSE IF ts.nan
        THEN VerifyFail("Invalid Signature Headers")
        ELSE IF Unix(tnow) - ts.v > WebhookTolerance
        THEN VerifyFail("Message timestamp too old")
        ELSE IF ts.v > Unix(tnow) + WebhookTolerance
        THEN VerifyFail("Message timestamp too new")
        ELSE IF r.sig # Sign(secret, r.id, ts.v * Second, r.body)
        THEN VerifyFail("No matching signature found")
        ELSE IF ~j.ok
        THEN VerifyFail("SyntaxError")
        ELSE VerifyOk(j.value)

-----------------------------------------------------------------------------
(* WebhookHandler (lib/webhook.ts): handler() *)

\* a request arrives at the route
Receive ==
    /\ rx \in SvixKinds
    /\ rxpc = "idle"
    /\ \E r \in SvixRequests : req' = r
    /\ rxpc' = "headers"
    /\ served' = served + 1
    /\ UNCHANGED <<txVars, prev, rx, rxConfig, handlers, wildcardHandlers, regOps, rnow,
                   bodyRead, verifyCalls, rxPayload, allHandlers, idx, hstate,
                   calls, args, errCalls, dispatch, rxResp>>

\* Mutant: only a header that was not sent counts as missing.
MissingSvixHeaders_OnlyNull(r) ==
    r.id = Absent \/ r.ts = Absent \/ r.sig = Absent

\* if (!svixId || !svixTimestamp || !svixSignature)
MissingSvixHeaders(r) == Missing(r.id) \/ Missing(r.ts) \/ Missing(r.sig)

CheckHeaders ==
    /\ rx \in SvixKinds
    /\ rxpc = "headers"
    /\ IF MissingSvixHeaders(req)
       THEN /\ rxResp' = [status |-> 401, error |-> "Missing Svix headers"]
            /\ rxpc' = "responded"
       ELSE /\ rxpc' = "body"
            /\ UNCHANGED rxResp
    /\ UNCHANGED <<txVars, prev, served, rx, rxConfig, handlers, wildcardHandlers, regOps, rnow,
                   req, bodyRead, verifyCalls, rxPayload, allHandlers, idx, hstate,
                   calls, args, errCalls, dispatch>>

\* const rawBody = await c.req.text()
ReadBody ==
    /\ rx \in SvixKinds
    /\ rxpc = "body"
    /\ bodyRead' = TRUE
    /\ rxpc' = "verify"
    /\ UNCHANGED <<txVars, prev, served, rx, rxConfig, handlers, wildcardHandlers, regOps, rnow,
                   req, verifyCalls, rxPayload, allHandlers, idx, hstate, calls, args,
                   errCalls, dispatch, rxResp>>

\* what the catch block of handler() answers
VerificationFailed(message) ==
    [status |-> 401, error |-> "Verification failed", details |-> message]

\* this.svix.verify(rawBody, headers); a throw lands in the catch block
Verify ==
    /\ rx = "lib"
    /\ rxpc = "verify"
    /\ verifyCalls' = verifyCalls + 1
    /\ LET v == SvixVerify(rxConfig.secret, req, rnow)
       IN  IF v.ok
           THEN /\ rxPayload' = v.payload
                /\ rxpc' = "executeHandlers"
                /\ UNCHANGED rxResp
           ELSE /\ rxResp' = VerificationFailed(v.error)
                /\ rxpc' = "responded"
                /\ UNCHANGED rxPayload
    /\ UNCHANGED <<txVars, prev, served, rx, rxConfig, handlers, wildcardHandlers, regOps, rnow,
                   req, bodyRead, allHandlers, idx, hstate, calls, args, errCalls,
                   dispatch>>

-----------------------------------------------------------------------------
(* WebhookHandler (lib/webhook.ts): executeHandlers *)

\* what a call handler(data, payload) does: return undefined, throw, or
\* return a promise that settles later
HandlerOutcomes == {"return", "throw", "promise"}
Settlements == {"resolved", "rejected"}
\* what a call of config.onHandlerError does
CallbackOutcomes == {"return", "throw"}

\* this.handlers.get(event) ?? []
HandlersGet(event) ==
    IF event \in DOMAIN handlers THEN handlers[event] ELSE <<>>

\* Mutant: the wildcard handlers are put in front.
AllHandlers_WildcardFirst(event) == wildcardHandlers \o HandlersGet(event)

\* const allHandlers = [...handlers, ...this.wildcardHandlers]
AllHandlers(event) == HandlersGet(event) \o wildcardHandlers

\* the arguments of handler(data, payload), with { event, data } = payload
CallArgs == <<rxPayload.data, rxPayload>>

\* one invocation of config.onHandlerError(err, event) for the handler at pos
ErrCall(pos, cb) ==
    [pos |-> pos, handler |-> allHandlers[pos], event |-> rxPayload.event,
     threw |-> cb = "throw"]

Success == [status |-> 200, success |-> TRUE, event |-> rxPayload.event,
            msgId |-> req.id]

\* entry of executeHandlers: resolve the handler list
executeHandlers ==
    /\ rx = "lib"
    /\ rxpc = "executeHandlers"
    /\ allHandlers' = AllHandlers(rxPayload.event)
    /\ hstate' = [i \in 1..Len(allHandlers') |-> "new"]
    /\ idx' = 1
    /\ dispatch' = "pending"
    /\ rxpc' = IF rxConfig.parallelExecution THEN "map" ELSE "for"
    /\ UNCHANGED <<txVars, prev, served, rx, rxConfig, handlers, wildcardHandlers, regOps, rnow,
                   req, bodyRead, verifyCalls, rxPayload, calls, args, errCalls, rxResp>>

\* the catch block of the sequential loop: report to the callback; a throw
\* of the callback leaves executeHandlers and lands in the catch block of
\* handler()
SeqCatch(cb) ==
    /\ errCalls' = Append(errCalls, ErrCall(idx, cb))
    /\ IF cb = "throw"
       THEN /\ dispatch' = "rejected"
            /\ rxResp' = VerificationFailed("onHandlerError")
            /\ rxpc' = "responded"
            /\ UNCHANGED idx
       ELSE /\ idx' = idx + 1
            /\ rxpc' = "for"
            /\ UNCHANGED <<dispatch, rxResp>>

\* sequential mode: try { await handler(data, payload) } for the next handler
SeqCall ==
    /\ rx = "lib"
    /\ rxpc = "for"
    /\ idx <= Len(allHandlers)
    /\ calls' = Append(calls, idx)
    /\ args' = Append(args, CallArgs)
    /\ \E o \in HandlerOutcomes, cb \in CallbackOutcomes :
         CASE o = "return" ->
                /\ cb = "return"
                /\ hstate' = [hstate EXCEPT ![idx] = "returned"]
                /\ idx' = idx + 1
                /\ UNCHANGED <<rxpc, errCalls, dispatch, rxResp>>
           [] o = "throw" ->
                /\ hstate' = [hstate EXCEPT ![idx] = "threw"]
                /\ SeqCatch(cb)
           [] o = "promise" ->
                /\ cb = "return"
                /\ hstate' = [hstate EXCEPT ![idx] = "pending"]
                /\ rxpc' = "await"
                /\ UNCHANGED <<idx, errCalls, dispatch, rxResp>>
    /\ UNCHANGED <<txVars, prev, served, rx, rxConfig, handlers, wildcardHandlers, regOps, rnow,
                   req, bodyRead, verifyCalls, rxPayload, allHandlers>>

\* sequential mode: the awaited promise settles
SeqSettle ==
    /\ rx = "lib"
    /\ rxpc = "await"
    /\ \E s \in Settlements, cb \in CallbackOutcomes :
         /\ hstate' = [hstate EXCEPT ![idx] = s]
         /\ IF s = "rejected"
            THEN SeqCatch(cb)
            ELSE /\ cb = "return"
                 /\ idx' = idx + 1
                 /\ rxpc' = "for"
                 /\ UNCHANGED <<errCalls, dispatch, rxResp>>
    /\ UNCHANGED <<txVars, prev, served, rx, rxConfig, handlers, wildcardHandlers, regOps, rnow,
                   req, bodyRead, verifyCalls, rxPayload, allHandlers, calls, args>>

\* sequential mode: the loop is over, executeHandlers resolves and handler()
\* answers
SeqDone ==
    /\ rx = "lib"
    /\ rxpc = "for"
    /\ idx > Len(allHandlers)
    /\ dispatch' = "resolved"
    /\ rxResp' = Success
    /\ rxpc' = "responded"
    /\ UNCHANGED <<txVars, prev, served, rx, rxConfig, handlers, wildcardHandlers, regOps, rnow,
                   req, bodyRead, verifyCalls, rxPayload, allHandlers, idx, hstate,
                   calls, args, errCalls>>

\* parallel mode: allHandlers.map calls the next handler.  A throw of the
\* handler leaves map and executeHandlers, and lands in the catch block of
\* handler(); the handlers after it are not called.
ParCall ==
    /\ rx = "lib"
    /\ rxpc = "map"
    /\ idx <= Len(allHandlers)
    /\ calls' = Append(calls, idx)
    /\ args' = Append(args, CallArgs)
    /\ \E o \in HandlerOutcomes :
         CASE o = "return" ->
                /\ hstate' = [hstate EXCEPT ![idx] = "returned"]
                /\ idx' = idx + 1
                /\ UNCHANGED <<rxpc, dispatch, rxResp>>
           [] o = "throw" ->
                /\ hstate' = [hstate EXCEPT ![idx] = "threw"]
                /\ dispatch' = "rejected"
                /\ rxResp' = VerificationFailed("handler")
                /\ rxpc' = "responded"
                /\ UNCHANGED idx
           [] o = "promise" ->
                /\ hstate' = [hstate EXCEPT ![idx] = "pending"]
                /\ idx' = idx + 1
                /\ UNCHANGED <<rxpc, dispatch, rxResp>>
    /\ UNCHANGED <<txVars, prev, served, rx, rxConfig, handlers, wildcardHandlers, regOps, rnow,
                   req, bodyRead, verifyCalls, rxPayload, allHandlers, errCalls>>

\* parallel mode: a handler's promise settles after map has run; .catch
\* reports a rejection to the callback
ParSettle(i) ==
    /\ rx = "lib"
    /\ rxConfig.parallelExecution
    /\ rxpc = "responded" \/ (rxpc = "map" /\ idx > Len(allHandlers))
    /\ i \in Pending(hstate)
    /\ \E s \in Settlements, cb \in CallbackOutcomes :
         /\ hstate' = [hstate EXCEPT ![i] = s]
         /\ IF s = "rejected"
            THEN errCalls' = Append(errCalls, ErrCall(i, cb))
            ELSE cb = "return" /\ UNCHANGED errCalls
    /\ UNCHANGED <<txVars, prev, served, rx, rxConfig, handlers, wildcardHandlers, regOps, rnow,
                   req, rxpc, bodyRead, verifyCalls, rxPayload, allHandlers, idx,
                   calls, args, dispatch, rxResp>>

ParDone_NoWait ==
    /\ rx = "lib"
    /\ rxpc = "map"
    /\ idx > Len(allHandlers)
    /\ dispatch' = "resolved"
    /\ rxResp' = Success
    /\ rxpc' = "responded"
    /\ UNCHANGED <<txVars, prev, served, rx, rxConfig, handlers, wildcardHandlers, regOps, rnow,
                   req, bodyRead, verifyCalls, rxPayload, allHandlers, idx, hstate,
                   calls, args, errCalls>>

\* parallel mode: Promise.allSettled resolves, executeHandlers resolves and
\* handler() answers
ParDone ==
    /\ rx = "lib"
    /\ rxpc = "map"
    /\ idx > Len(allHandlers)
    /\ Pending(hstate) = {}
    /\ dispatch' = "resolved"
    /\ rxResp' = Success
    /\ rxpc' = "responded"
    /\ UNCHANGED <<txVars, prev, served, rx, rxConfig, handlers, wildcardHandlers, regOps, rnow,
                   req, bodyRead, verifyCalls, rxPayload, allHandlers, idx, hstate,
                   calls, args, errCalls>>

-----------------------------------------------------------------------------
(* Inline receivers: "bun" (index.ts, Bun.serve, X-Webhook-* headers),       *)
(* "hono" (part_002, Hono, X-Webhook-* headers), "honoSvix" (index.ts, Hono  *)
(* and the Svix SDK)                                                        *)

SimpleKinds == {"bun", "hono"}
InlineKinds == SimpleKinds \cup {"honoSvix"}

\* const eventHandlers = {"order.created": ..., "order.updated": ..., ...}
eventHandlers ==
    [e \in {"order.created", "order.updated", "payment.received"} |-> <<"log">>]

\* createHmac("sha256", secret).update(payload).digest("hex"): 64 characters
HmacHex(secret, body) == <<"hex", 64, secret, body>>
ByteLength(s) == s[2]

\* Mutant: the digests are compared without regard to length or letter case.
verifySignature_Lenient(secret, body, sig) ==
    LET expectedSignature == HmacHex(secret, body)
    IN  sig[3] = expectedSignature[3] /\ sig[4] = expectedSignature[4]

\* verifySignature(payload, signature): timingSafeEqual throws on buffers of
\* different length, and the catch answers false
verifySignature(secret, body, sig) ==
    LET expectedSignature == HmacHex(secret, body)
    IN  IF ByteLength(sig) # ByteLength(expectedSignature)
        THEN FALSE
        ELSE sig = expectedSignature

\* new Date(timestamp).getTime(): NaN for text that is no date
DateGetTime(h) == IF Len(h) = 2 /\ h[1] = "iso" THEN Num(h[2]) ELSE NaN

\* Math.abs(now - webhookTime) > 5 * 60 * 1000; any comparison with NaN is false
TooOld(tnow, t) ==
    IF t.nan THEN FALSE
    ELSE (IF tnow - t.v >= 0 THEN tnow - t.v ELSE t.v - tnow) > FreshnessWindow

\* X-Webhook-Timestamp values around the edges of the window, and text
SimpleTimestamps ==
    { <<"iso", RecvTime + d>> :
        d \in { -FreshnessWindow - 1, -FreshnessWindow, 0, FreshnessWindow,
                FreshnessWindow + 1 } }
    \cup {<<"garbage", 0>>}

\* X-Webhook-Signature values: digests made with the right or a wrong secret
\* over any body, and text of the right and of a wrong length
SimpleSignatures ==
    { HmacHex(k, b) : k \in Secrets \cup {WrongSecret}, b \in RxBodies }
    \cup {<<"hex", 64, "", <<>>>>, <<"hex", 4, "", <<>>>>}
    \* the right digest cut short, and in upper case
    \cup { <<"hex", 32, k, b>> : k \in Secrets, b \in RxBodies }
    \cup { <<"HEX", 64, k, b>> : k \in Secrets, b \in RxBodies }

SimpleRequests ==
    { [id |-> Absent, ts |-> t, sig |-> s, body |-> b] :
        t \in SimpleTimestamps \cup {Absent, Empty},
        s \in SimpleSignatures \cup {Absent, Empty},
        b \in RxBodies }

\* the first checks of the simple scheme, in the order of the code: "" when
\* the request passes them, else the error answered with 401
SimpleHeaderError(r, tnow) ==
    IF Missing(r.sig) \/ Missing(r.ts)
    THEN "Missing signature or timestamp"
    ELSE IF TooOld(tnow, DateGetTime(r.ts))
    THEN "Webhook timestamp too old"
    ELSE ""

\* the request passes the header, freshness and signature checks
AcceptsSimple(secret, r, tnow) ==
    /\ SimpleHeaderError(r, tnow) = ""
    /\ verifySignature(secret, r.body, r.sig)

\* what the catch block of the route answers
InlineCatch(kind) ==
    IF kind = "honoSvix"
    THEN [status |-> 401, error |-> "Invalid webhook signature"]
    ELSE [status |-> 400, error |-> "Invalid JSON payload"]

InlineOk == [status |-> 200, message |-> "Webhook received"]

ReceiveSimple ==
    /\ rx \in SimpleKinds
    /\ rxpc = "idle"
    /\ \E r \in SimpleRequests : req' = r
    /\ rxpc' = "headers"
    /\ served' = served + 1
    /\ UNCHANGED <<txVars, prev, rx, rxConfig, handlers, wildcardHandlers, regOps, rnow,
                   bodyRead, verifyCalls, rxPayload, allHandlers, idx, hstate,
                   calls, args, errCalls, dispatch, rxResp>>

\* required headers and timestamp freshness
CheckSimple ==
    /\ rx \in SimpleKinds
    /\ rxpc = "headers"
    /\ LET e == SimpleHeaderError(req, rnow)
       IN  IF e # ""
           THEN /\ rxResp' = [status |-> 401, error |-> e]
                /\ rxpc' = "responded"
           ELSE /\ rxpc' = "body"
                /\ UNCHANGED rxResp
    /\ UNCHANGED <<txVars, prev, served, rx, rxConfig, handlers, wildcardHandlers, regOps, rnow,
                   req, bodyRead, verifyCalls, rxPayload, allHandlers, idx, hstate,
                   calls, args, errCalls, dispatch>>

\* rawBody = await req.text(); verifySignature; JSON.parse inside the try
VerifySimple ==
    /\ rx \in SimpleKinds
    /\ rxpc = "body"
    /\ bodyRead' = TRUE
    /\ verifyCalls' = verifyCalls + 1
    /\ LET j == JSONParse(req.body)
       IN  IF ~verifySignature(rxConfig.secret, req.body, req.sig)
           THEN /\ rxResp' = [status |-> 401, error |-> "Invalid signature"]
                /\ rxpc' = "responded"
                /\ UNCHANGED rxPayload
           ELSE IF ~j.ok
           THEN /\ rxResp' = InlineCatch(rx)
                /\ rxpc' = "responded"
                /\ UNCHANGED rxPayload
           ELSE /\ rxPayload' = j.value
                /\ rxpc' = "route"
                /\ UNCHANGED rxResp
    /\ UNCHANGED <<txVars, prev, served, rx, rxConfig, handlers, wildcardHandlers, regOps, rnow,
                   req, allHandlers, idx, hstate, calls, args, errCalls, dispatch>>

\* wh.verify(rawBody, headers) inside the try of the Hono + Svix route
VerifyInline ==
    /\ rx = "honoSvix"
    /\ rxpc = "verify"
    /\ verifyCalls' = verifyCalls + 1
    /\ LET v == SvixVerify(rxConfig.secret, req, rnow)
       IN  IF v.ok
           THEN /\ rxPayload' = v.payload
                /\ rxpc' = "route"
                /\ UNCHANGED rxResp
           ELSE /\ rxResp' = InlineCatch(rx)
                /\ rxpc' = "responded"
                /\ UNCHANGED rxPayload
    /\ UNCHANGED <<txVars, prev, served, rx, rxConfig, handlers, wildcardHandlers, regOps, rnow,
                   req, bodyRead, allHandlers, idx, hstate, calls, args, errCalls,
                   dispatch>>

\* const handler = eventHandlers[payload.event]; if (handler) handler(data),
\* awaited by the Hono routes and not awaited by the Bun.serve route; a throw
\* lands in the catch block of the route
Route ==
    /\ rx \in InlineKinds
    /\ rxpc = "route"
    /\ allHandlers' = HandlersGet(rxPayload.event)
    /\ IF allHandlers' = <<>>
       THEN /\ rxResp' = InlineOk
            /\ rxpc' = "responded"
            /\ UNCHANGED <<hstate, calls, args>>
       ELSE /\ calls' = Append(calls, 1)
            /\ args' = Append(args, <<rxPayload.data>>)
            /\ \E o \in HandlerOutcomes :
                 CASE o = "return" ->
                        /\ hstate' = <<"returned">>
                        /\ rxResp' = InlineOk
                        /\ rxpc' = "responded"
                   [] o = "throw" ->
                        /\ hstate' = <<"threw">>
                        /\ rxResp' = InlineCatch(rx)
                        /\ rxpc' = "responded"
                   [] o = "promise" ->
                        /\ hstate' = <<"pending">>
                        /\ IF rx = "bun"
                           THEN rxResp' = InlineOk /\ rxpc' = "responded"
                           ELSE rxpc' = "await" /\ UNCHANGED rxResp
    /\ UNCHANGED <<txVars, prev, served, rx, rxConfig, handlers, wildcardHandlers, regOps, rnow,
                   req, bodyRead, verifyCalls, rxPayload, idx, errCalls, dispatch>>

\* the promise the routed handler returned settles; a rejection of an
\* awaited promise lands in the catch block of the route
SettleInline ==
    /\ rx \in InlineKinds
    /\ Pending(hstate) # {}
    /\ \E s \in Settlements :
         /\ hstate' = <<s>>
         /\ IF rx = "bun"
            THEN UNCHANGED <<rxResp, rxpc>>
            ELSE /\ rxResp' = IF s = "rejected" THEN InlineCatch(rx) ELSE InlineOk
                 /\ rxpc' = "responded"
    /\ UNCHANGED <<txVars, prev, served, rx, rxConfig, handlers, wildcardHandlers, regOps, rnow,
                   req, bodyRead, verifyCalls, rxPayload, allHandlers, idx, calls, args,
                   errCalls, dispatch>>

-----------------------------------------------------------------------------
(* Receivers: initial state *)

NoRequest == [id |-> Absent, ts |-> Absent, sig |-> Absent, body |-> <<>>]

\* no request was served before this one
NoPrev == [req |-> NoRequest, rnow |-> 0, accepted |-> FALSE,
           allHandlers |-> <<>>, called |-> FALSE]

RxInit(kinds) ==
    /\ rx \in kinds
    /\ rxConfig \in (IF rx = "lib" THEN LibConfigs
                     ELSE {NewWebhookHandler(s, FALSE) : s \in Secrets})
    /\ handlers = IF rx \in InlineKinds THEN eventHandlers
                  ELSE [e \in {} |-> <<>>]
    /\ wildcardHandlers = <<>>
    /\ regOps = 0
    /\ rnow = RecvTime
    /\ req = NoRequest
    /\ rxpc = "idle"
    /\ bodyRead = FALSE
    /\ verifyCalls = 0
    /\ rxPayload = JSONParse(Malformed).value
    /\ allHandlers = <<>>
    /\ idx = 0
    /\ hstate = <<>>
    /\ calls = <<>>
    /\ args = <<>>
    /\ errCalls = <<>>
    /\ dispatch = "none"
    /\ rxResp = NoRxResp
    /\ served = 0
    /\ prev = NoPrev

-----------------------------------------------------------------------------
(* go-webhook-server (main.go): the /trigger and /trigger/:event routes *)

webhookSecret == "whsec_MfKQ9r8GKYqrTwjUPD8ILPZIo2LaLaSw"

\* wh, err := svix.NewWebhook(webhookSecret)
SrvConfig == [Secret |-> webhookSecret]

\* c.JSON(status, gin.H{...}): the status and the message or error text
TriggerResponse(status, text) == [status |-> status, text |-> text]

\* msgID := "msg_" + time.Now().Format("20060102150405"): the clock to the second
MsgIDSrv(t) == <<"msg_", "time", Unix(t)>>

\* the :event parameter and the request bodies sent to /trigger/:event
TriggerEvents == {"order.created", "payment.failed"}
TriggerBodies == {<<"order">>, Malformed}

\* c.ShouldBindJSON(&data)
ShouldBindJSON(b) ==
    IF b = Malformed THEN [ok |-> FALSE, data |-> ""]
                     ELSE [ok |-> TRUE, data |-> b[1]]

\* the body of a route from the payload bytes to the entry into client.Do:
\* message id, wh.Sign, the request and its svix-* headers; a Sign error is
\* answered 500
SignAndSend(bytes, signOk) ==
    LET id == MsgIDSrv(now)
    IN  /\ jsonData' = bytes
        /\ msgID' = id
        /\ ids' = Append(ids, id)
        /\ signingTimestamp' = now
        /\ signCalls' = signCalls + 1
        /\ IF signOk
           THEN /\ signature' = Sign(config.Secret, id, now, bytes)
                /\ requests' = Append(requests,
                                      [ctype |-> "application/json", id |-> id,
                                       ts |-> <<"rfc3339", Unix(now)>>,
                                       sig |-> signature', body |-> bytes])
                /\ lastErr' = Nil
                /\ pc' = "Do"
                /\ UNCHANGED resp
           ELSE /\ signature' = <<>>
                /\ lastErr' = Err("svix", "failed to sign", 0)
                /\ resp' = TriggerResponse(500, lastErr'.cause)
                /\ pc' = "done"
                /\ UNCHANGED requests

\* r.POST("/trigger", ...): a fixed order.created payload
PostTrigger ==
    /\ client = "srv"
    /\ pc \in {"idle", "done"}
    /\ attempt < MaxTriggers
    /\ attempt' = attempt + 1
    /\ lastStatusCode' = 0
    /\ \E signOk \in BOOLEAN :
         SignAndSend(<<"event", "order.created", "timestamp", <<"rfc3339", Unix(now)>>,
                       "data", "order">>, signOk)
    /\ UNCHANGED <<rxVars, peer, client, config, ctxDone, now, opErr, retErr, numTries,
                   currentInterval, timer, outcomes, sleeps, fatal, nextUUID>>

\* r.POST("/trigger/:event", ...): the event of the path, the data of the body
PostTriggerEvent ==
    /\ client = "srv"
    /\ pc \in {"idle", "done"}
    /\ attempt < MaxTriggers
    /\ attempt' = attempt + 1
    /\ lastStatusCode' = 0
    /\ \E event \in TriggerEvents, b \in TriggerBodies, signOk \in BOOLEAN :
         LET bound == ShouldBindJSON(b)
         IN  IF ~bound.ok
             THEN /\ lastErr' = Err("json", "Invalid JSON payload", 0)
                  /\ resp' = TriggerResponse(400, "Invalid JSON payload")
                  /\ pc' = "done"
                  /\ UNCHANGED <<jsonData, msgID, ids, signingTimestamp, signCalls,
                                 signature, requests>>
             ELSE SignAndSend(Marshal([Event |-> event, Timestamp |-> now,
                                       Data |-> bound.data]).bytes, signOk)
    /\ UNCHANGED <<rxVars, peer, client, config, ctxDone, now, opErr, retErr, numTries,
                   currentInterval, timer, outcomes, sleeps, fatal, nextUUID>>

\* what a route answers after client.Do: 500 with the error when Do failed,
\* 200 'Webhook sent!' when Do returned a response
TriggerAnswer(o) ==
    IF o.kind = "neterr" THEN TriggerResponse(500, "transport")
    ELSE TriggerResponse(200, "Webhook sent!")

\* resp, err := client.Do(req) returns with outcome o, and the route answers
DoSrv(o) ==
    /\ client = "srv"
    /\ pc = "Do"
    /\ outcomes' = Append(outcomes, o)
    /\ lastErr' = IF o.kind = "neterr" THEN Err("none", "transport", 0) ELSE Nil
    /\ lastStatusCode' = o.code
    /\ resp' = TriggerAnswer(o)
    /\ pc' = "done"
    /\ UNCHANGED <<rxVars, peer, ids, client, config, ctxDone, now, jsonData, msgID,
                   signingTimestamp, signature, opErr, retErr, numTries,
                   currentInterval, timer, attempt, requests, sleeps, fatal,
                   nextUUID, signCalls>>

-----------------------------------------------------------------------------
(* Specification *)

\* no sender is constructed in a behaviour of a receiver
NoClient == [Secret |-> ""]

\* no second call has been made
NoPeer == [pc |-> "idle", ctxDone |-> FALSE, msgID |-> <<>>, lastErr |-> Nil,
           lastStatusCode |-> 0, opErr |-> [err |-> Nil, permanent |-> FALSE],
           retErr |-> Nil, numTries |-> 0, currentInterval |-> 0,
           outcomes |-> <<>>, resp |-> NoResponse]

TxInit(clients) ==
    /\ client \in clients
    /\ config \in (IF client = "ctx" THEN CtxConfigs
                   ELSE IF client = "cfg" THEN CfgConfigs
                   ELSE IF client = "srv" THEN {SrvConfig}
                   ELSE {NoClient})
    /\ ctxDone = FALSE
    /\ now = StartTime
    /\ pc = "idle"
    /\ jsonData = <<>>
    /\ msgID = <<>>
    /\ signingTimestamp = 0
    /\ signature = <<>>
    /\ lastErr = Nil
    /\ lastStatusCode = 0
    /\ opErr = [err |-> Nil, permanent |-> FALSE]
    /\ retErr = Nil
    /\ numTries = 0
    /\ currentInterval = 0
    /\ timer = IdleTimer
    /\ attempt = 0
    /\ requests = <<>>
    /\ outcomes = <<>>
    /\ sleeps = <<>>
    /\ resp = NoResponse
    /\ fatal = "none"
    /\ nextUUID = 1
    /\ signCalls = 0
    /\ ids = <<>>
    /\ peer = NoPeer

InitFor(clients) == TxInit(clients) /\ RxInit({"none"})

Init == InitFor({"ctx", "cfg"})

\* the steps of the sending goroutine and of the runtime in the
\* context-aware client: everything but the caller's cancellation
StepCtx ==
    \/ SendPayload
    \/ sendWithRetry
    \/ operation
    \/ Do
    \/ Retry
    \/ TimerFires
    \/ WakeTimer
    \/ WakeCancelled
    \/ Return

NextCtx == StepCtx \/ Cancel

NextCfg ==
    \/ SendPayloadCfg
    \/ sendWithRetryCfg
    \/ DoCfg
    \/ SleepCfg

Next == NextCtx \/ NextCfg

Spec == Init /\ [][Next]_vars

\* The context-aware client alone.  Its goroutine keeps running, timers
\* fire and c.http.Do returns (the http.Client's Timeout, or the context,
\* bounds it).
InitCtx == InitFor({"ctx"})
FairSpecCtx == InitCtx /\ [][NextCtx]_vars /\ WF_vars(StepCtx)

\* The WebhookHandler library: handlers are registered, then one request is
\* served.
InitLib == TxInit({"none"}) /\ RxInit({"lib"})

NextLib ==
    \/ (rxpc = "idle" /\ \E e \in RegEvents, h \in HandlerIds : on(e, h))
    \/ (rxpc = "idle" /\ \E e \in RegEvents, h \in HandlerIds : off(e, h))
    \/ (rxpc = "idle" /\ \E h \in HandlerIds : onAll(h))
    \/ (rxpc = "idle" /\ \E h \in HandlerIds : offAll(h))
    \/ Receive
    \/ CheckHeaders
    \/ ReadBody
    \/ Verify
    \/ executeHandlers
    \/ SeqCall
    \/ SeqSettle
    \/ SeqDone
    \/ ParCall
    \/ \E i \in DOMAIN hstate : ParSettle(i)
    \/ ParDone

SpecLib == InitLib /\ [][NextLib]_vars

\* End to end: the context-aware client sends to a WebhookHandler built with
\* the same secret and the caller's context is never cancelled.  The request
\* of an attempt reaches the route unmodified, after some delay, or is lost;
\* c.http.Do returns the route's answer, or a transport error.
Deliver ==
    /\ client = "ctx"
    /\ rx = "lib"
    /\ pc = "Do"
    /\ rxpc \in {"idle", "responded"}
    /\ served < Len(requests)
    /\ served' = Len(requests)
    /\ req' = [id |-> Last(requests).id, ts |-> Last(requests).ts,
               sig |-> Last(requests).sig, body |-> Last(requests).body]
    /\ \E d \in {0, MaxDelay} : rnow' = now + d
    /\ rxpc' = "headers"
    /\ bodyRead' = FALSE
    /\ verifyCalls' = 0
    /\ rxPayload' = JSONParse(Malformed).value
    /\ allHandlers' = <<>>
    /\ idx' = 0
    /\ hstate' = <<>>
    /\ calls' = <<>>
    /\ args' = <<>>
    /\ errCalls' = <<>>
    /\ dispatch' = "none"
    /\ rxResp' = NoRxResp
    /\ UNCHANGED <<txVars, prev, rx, rxConfig, handlers, wildcardHandlers, regOps>>

\* c.http.Do returns the answer of the route
DoAnswered ==
    /\ rx = "lib"
    /\ rxpc = "responded"
    /\ served = Len(requests)
    /\ DoReturns(Status(rxResp.status))

\* c.http.Do returns a transport error: the request or the answer was lost
DoLost ==
    /\ rx = "lib"
    /\ rxpc \in {"idle", "responded"}
    /\ DoReturns(NetErr)

InitE2E ==
    /\ TxInit({"ctx"})
    /\ RxInit({"lib"})
    /\ config.urlValid
    /\ config.MaxRetries \in 1..E2ERetries
    /\ rxConfig.secret = config.Secret

NextE2E ==
    \/ (pc = "idle" /\ regOps < E2ERegOps
          /\ \E e \in RegEvents, h \in HandlerIds : on(e, h))
    \/ (pc = "idle" /\ regOps < E2ERegOps /\ \E h \in HandlerIds : onAll(h))
    \/ SendPayload
    \/ sendWithRetry
    \/ operation
    \/ Deliver
    \/ CheckHeaders
    \/ ReadBody
    \/ Verify
    \/ executeHandlers
    \/ SeqCall
    \/ SeqSettle
    \/ SeqDone
    \/ ParCall
    \/ \E i \in DOMAIN hstate : ParSettle(i)
    \/ ParDone
    \/ DoAnswered
    \/ DoLost
    \/ Retry
    \/ TimerFires
    \/ WakeTimer
    \/ Return

SpecE2E == InitE2E /\ [][NextE2E]_vars

\* The inline receivers serving one request.
InitInline == TxInit({"none"}) /\ RxInit(InlineKinds)

NextInline ==
    \/ ReceiveSimple
    \/ CheckSimple
    \/ VerifySimple
    \/ Receive
    \/ CheckHeaders
    \/ ReadBody
    \/ VerifyInline
    \/ Route
    \/ SettleInline

SpecInline == InitInline /\ [][NextInline]_vars

-----------------------------------------------------------------------------
(* Claims *)

Retryable(o) == o.kind = "neterr" \/ o.code >= 500
IsClientStatus(o) == o.kind = "status" /\ o.code >= 400 /\ o.code < 500
Is2xx(o) == o.kind = "status" /\ o.code >= 200 /\ o.code < 300
InSuccessRange(o) == o.kind = "status" /\ o.code >= 200 /\ o.code < 400
Returned == pc = "done"

\* C1 - Retry bound, context-aware client: with MaxRetries = N >= 1, every
\* attempt ending in a retryable failure and the context never cancelled,
\* the send makes exactly N attempts (N requests on the wire when the URL
\* parses) and returns Success=false with an error; after a last 5xx the
\* error wraps ErrServerError and StatusCode is that status.
C1_RetryBound ==
    ( /\ client = "ctx"
      /\ Returned
      /\ fatal = "none"
      /\ ~ctxDone
      /\ config.MaxRetries >= 1
      /\ \A i \in 1..Len(outcomes) : Retryable(outcomes[i]) )
    => /\ Len(outcomes) = config.MaxRetries
       /\ (config.urlValid => Len(requests) = config.MaxRetries)
       /\ ~resp.Success
       /\ resp.Error # Nil
       /\ ( Last(outcomes).kind = "status"
            => /\ errorsIs(resp.Error, ErrServerError)
               /\ resp.StatusCode = Last(outcomes).code )

C1_Witness ==
    /\ client = "ctx"
    /\ Returned
    /\ ~ctxDone
    /\ config.MaxRetries = 3
    /\ outcomes = <<Status(500), NetErr, Status(503)>>
    /\ Len(requests) = 3
    /\ resp.StatusCode = 503

\* C2 - No retry on 4xx, context-aware client: an attempt answered with a
\* status in [400,500) is the last attempt, no backoff sleep follows it, and
\* the Response has Success=false, that StatusCode and an error wrapping
\* ErrClientError.
C2_NoRetryOnClientError ==
    client = "ctx" =>
      \A i \in 1..Len(outcomes) :
        IsClientStatus(outcomes[i]) =>
          /\ i = Len(outcomes)
          /\ Len(requests) = i
          /\ Len(sleeps) = i - 1
          /\ pc \in {"Retry", "return", "done"}
          /\ ( Returned => /\ ~resp.Success
                           /\ resp.StatusCode = outcomes[i].code
                           /\ errorsIs(resp.Error, ErrClientError) )

C2_Witness ==
    /\ client = "ctx"
    /\ Returned
    /\ config.MaxRetries = 3
    /\ outcomes = <<Status(500), Status(499)>>
    /\ resp.StatusCode = 499

\* C3 - No retry on 4xx, Config-struct client: an attempt answered with a
\* status in [400,500) is the last attempt and no backoff sleep follows it.
C3_NoRetryOnClientErrorCfg ==
    client = "cfg" =>
      \A i \in 1..Len(outcomes) :
        IsClientStatus(outcomes[i]) =>
          /\ i = Len(outcomes)
          /\ Len(requests) = i
          /\ Len(sleeps) = i - 1
          /\ pc = "done"

\* C4 - Eventual success: k < MaxRetries retryable failures followed by a
\* 2xx answer on attempt k+1 end the send there: exactly k+1 attempts, and
\* the Response has Success=true, no error and the 2xx status.
C4_EventualSuccess ==
    client = "ctx" =>
      \A i \in 1..Len(outcomes) :
        ( /\ Is2xx(outcomes[i])
          /\ i <= config.MaxRetries
          /\ \A j \in 1..(i - 1) : Retryable(outcomes[j]) )
        => /\ i = Len(outcomes)
           /\ Len(requests) = i
           /\ pc \in {"Retry", "return", "done"}
           /\ ( Returned => /\ resp.Success
                            /\ resp.Error = Nil
                            /\ resp.StatusCode = outcomes[i].code )

C4_Witness ==
    /\ client = "ctx"
    /\ Returned
    /\ config.MaxRetries = 3
    /\ outcomes = <<Status(500), Status(500), Status(200)>>
    /\ resp.Success

\* C5 - Cancellation error is distinct: when the retry loop was ended by
\* the context (Retry returned ctx.Err()), the Response has Success=false
\* and an error of a cancellation class, not one wrapping ErrServerError or
\* ErrNetwork as an exhausted send returns.
C5_CancellationDistinct ==
    ( client = "ctx" /\ Returned /\ fatal = "none" /\ retErr = CtxErr )
    => /\ ~resp.Success
       /\ resp.Error # Nil
       /\ ~errorsIs(resp.Error, ErrServerError)
       /\ ~errorsIs(resp.Error, ErrNetwork)

\* C6 - Cancellation stops the loop: once the context is cancelled no
\* request is put on the wire and no backoff sleep is started; a sleep that
\* is cancelled before its timer fired is left straight for the return; and
\* a cancelled send always returns.
C6_CancellationStops ==
    /\ [][ ctxDone => /\ requests' = requests
                      /\ sleeps' = sleeps
                      /\ (pc # "timer" => pc' # "timer")
                      /\ ( (pc = "timer" /\ ~timer.fired /\ pc' # "timer")
                           => pc' = "return" ) ]_vars
    /\ ( (client = "ctx" /\ ctxDone) ~> Returned )

C6_Witness ==
    /\ client = "ctx"
    /\ Returned
    /\ ctxDone
    /\ retErr = CtxErr
    /\ Len(sleeps) = 2
    /\ Len(requests) = 2
    /\ config.MaxRetries = 3

\* C7 - Identical bytes across retries: within one send Sign is called
\* once and one message id is drawn, and every request on the wire carries
\* the same id, timestamp and signature headers and the same body as the
\* first: those computed before the first attempt.
C7_IdenticalBytes ==
    /\ signCalls <= 1
    /\ nextUUID <= 2
    /\ \A i \in 1..Len(requests) :
         /\ requests[i] = requests[1]
         /\ requests[i].id = msgID
         /\ requests[i].ts[2] = Unix(signingTimestamp)
         /\ requests[i].sig = signature
         /\ requests[i].body = jsonData

C7_Witness ==
    /\ client = "ctx"
    /\ Len(requests) = 3
    /\ Unix(now) > Unix(signingTimestamp)
    /\ requests[3] = requests[1]

\* C8 - Success classification: a send that made an attempt returns
\* Success=true exactly when its last attempt was answered with a status in
\* [200,400).
C8_SuccessClassification ==
    ( Returned /\ Len(outcomes) > 0 )
    => ( resp.Success <=> InSuccessRange(Last(outcomes)) )

\* C9 - Serialization and signing failures are fatal: after a failed
\* json.Marshal or Sign the send has returned at once with Success=false
\* and an error, with no request sent, no attempt made and no sleep.
C9_FatalBeforeSend ==
    fatal # "none" =>
      /\ Returned
      /\ ~resp.Success
      /\ resp.Error # Nil
      /\ requests = <<>>
      /\ outcomes = <<>>
      /\ sleeps = <<>>

C9_Witness ==
    /\ Returned
    /\ fatal = "sign"
    /\ signCalls = 1
    /\ resp.Error = Err("svix", "failed to sign", 0)

\* C10 - Backoff schedule, Config-struct client: the sleep after the k-th
\* failed attempt is 1 second doubled k-1 times and never exceeds the
\* maximum backoff interval of 30 seconds.
C10_BackoffCappedCfg ==
    ( client = "cfg" /\ config.urlValid ) =>
      \A k \in 1..Len(sleeps) :
        LET doubled == (2 ^ (k - 1)) * InitialInterval
        IN  /\ sleeps[k] <= DefaultMaxInterval
            /\ sleeps[k] = IF doubled < DefaultMaxInterval THEN doubled
                           ELSE DefaultMaxInterval

Responded == rxpc = "responded"

\* C11 - Missing headers are rejected first (WebhookHandler.handler()): when
\* any of svix-id, svix-timestamp, svix-signature is absent or empty, the
\* request goes from the header check straight to a 401 response: the body
\* is never read, no verification is started and no handler is invoked.
C11_MissingHeadersFirst ==
    (rx = "lib" /\ rxpc # "idle"
       /\ (Missing(req.id) \/ Missing(req.ts) \/ Missing(req.sig))) =>
      /\ rxpc \in {"headers", "responded"}
      /\ Responded => rxResp.status = 401
      /\ ~bodyRead
      /\ verifyCalls = 0
      /\ calls = <<>>

\* an empty svix-signature next to a good id and timestamp was answered 401
\* while handlers are registered
C11_Witness ==
    /\ rx = "lib"
    /\ Responded
    /\ req.id \in RxIds
    /\ req.ts = <<"unix", Unix(RecvTime)>>
    /\ req.sig = Empty
    /\ rxResp.status = 401
    /\ wildcardHandlers # <<>>

\* the X-Webhook-Timestamp header denotes an instant within 5 minutes of the
\* receiver's clock
DenotesFreshInstant(h) ==
    /\ Len(h) = 2
    /\ h[1] = "iso"
    /\ h[2] >= rnow - FreshnessWindow
    /\ h[2] <= rnow + FreshnessWindow

\* C12 - Freshness window, simple-scheme receivers: a request whose non-empty
\* X-Webhook-Timestamp does not denote an instant within 5 minutes of the
\* receiver's clock (older, further ahead, or no parseable instant) never
\* reaches signature verification or a handler and is answered 401.
C12_FreshnessWindow ==
    (rx \in SimpleKinds /\ rxpc # "idle" /\ ~Missing(req.ts)
       /\ ~DenotesFreshInstant(req.ts)) =>
      /\ verifyCalls = 0
      /\ calls = <<>>
      /\ Responded => rxResp.status = 401

\* C13 - Tamper sensitivity, simple-scheme receivers: when the receiver has
\* accepted a request (answered 200), every request with the same signature
\* header and a different body, or a different X-Webhook-Timestamp value,
\* is rejected by the receiver's checks.
C13_TamperSensitivity ==
    (rx \in SimpleKinds /\ Responded /\ rxResp.status = 200) =>
      \A r \in SimpleRequests :
        (r.sig = req.sig /\ (r.body # req.body \/ r.ts # req.ts)) =>
          ~AcceptsSimple(rxConfig.secret, r, rnow)

\* C14 - Malformed body is a distinct rejection (WebhookHandler.handler()): a
\* request with all three headers, a fresh timestamp and a correct signature
\* over a body that is not well-formed JSON is answered 400.
C14_MalformedBody400 ==
    (rx = "lib" /\ Responded
       /\ req.id \in RxIds
       /\ req.ts = <<"unix", Unix(rnow)>>
       /\ req.sig = Sign(rxConfig.secret, req.id, rnow, req.body)
       /\ ~JSONParse(req.body).ok) =>
      rxResp.status = 400

\* C15 - Handler failures never reach the HTTP response (WebhookHandler): a
\* request that passes verification is answered with the success response
\* whatever its handlers do, in sequential and in parallel mode (here even
\* with an error callback that always returns normally).
C15_HandlerFailuresContained ==
    (rx = "lib" /\ Responded
       /\ SvixVerify(rxConfig.secret, req, rnow).ok
       /\ \A k \in DOMAIN errCalls : ~errCalls[k].threw) =>
      rxResp = Success

\* the request passed every check of its inline receiver and its body parsed
PassedInline ==
    IF rx \in SimpleKinds
    THEN AcceptsSimple(rxConfig.secret, req, rnow) /\ JSONParse(req.body).ok
    ELSE SvixVerify(rxConfig.secret, req, rnow).ok

\* C16 - Handler failures never reach the HTTP response (inline receivers):
\* a request that passed the header, freshness and signature checks and
\* whose body parsed is answered 200 whatever the routed handler does; 400 is
\* answered only for a malformed body, and the Hono + Svix route answers 401
\* only for a request that fails verification.
C16_InlineHandlerFailures ==
    (rx \in InlineKinds /\ Responded) =>
      /\ PassedInline => rxResp.status = 200
      /\ rxResp.status = 400 => ~JSONParse(req.body).ok
      /\ (rx = "honoSvix" /\ rxResp.status = 401) =>
           ~SvixVerify(rxConfig.secret, req, rnow).ok

\* executeHandlers has settled
Settled == dispatch \in {"resolved", "rejected"}
Failed(i) == hstate[i] \in {"threw", "rejected"}
\* the onHandlerError invocations made for the handler at position i
ErrCallsFor(i) == {k \in DOMAIN errCalls : errCalls[k].pos = i}

\* C17 - Sequential dispatch isolation: when executeHandlers has settled in
\* sequential mode, every handler of the list was invoked exactly once, the
\* error callback was invoked exactly once for each handler that failed
\* (with that handler and the event name) and never for one that succeeded.
C17_SequentialIsolation ==
    (rx = "lib" /\ ~rxConfig.parallelExecution /\ Settled) =>
      /\ calls = [i \in 1..Len(allHandlers) |-> i]
      /\ \A i \in 1..Len(allHandlers) :
           /\ Cardinality(ErrCallsFor(i)) = IF Failed(i) THEN 1 ELSE 0
           /\ \A k \in ErrCallsFor(i) :
                /\ errCalls[k].handler = allHandlers[i]
                /\ errCalls[k].event = rxPayload.event

\* C18 - Sequential dispatch order: in sequential mode the handlers are
\* started in the order of the list (the handlers of payload.event in
\* registration order, then the wildcard handlers in registration order),
\* and a handler is started only when every handler before it has settled.
C18_SequentialOrder ==
    (rx = "lib" /\ ~rxConfig.parallelExecution /\ dispatch # "none") =>
      /\ allHandlers = HandlersGet(rxPayload.event) \o wildcardHandlers
      /\ calls = [i \in 1..Len(calls) |-> i]
      /\ Len(calls) <= Len(allHandlers)
      /\ \A i \in 1..Len(allHandlers) :
           /\ (hstate[i] # "new") <=> (i <= Len(calls))
           /\ hstate[i] = "pending" => i = Len(calls)

\* an event handler and a wildcard handler were run in that order, the first
\* returning a promise that settled before the second was started
C18_Witness ==
    /\ rx = "lib"
    /\ ~rxConfig.parallelExecution
    /\ dispatch = "resolved"
    /\ HandlersGet(rxPayload.event) = <<"h2">>
    /\ wildcardHandlers = <<"h1">>
    /\ allHandlers = <<"h2", "h1">>
    /\ hstate = <<"resolved", "returned">>
    /\ calls = <<1, 2>>

\* C19 - Parallel dispatch reports every failure: when executeHandlers has
\* settled in parallel mode and no handler is left running, every handler of
\* the list was launched and the error callback was invoked exactly once for
\* each handler that failed, by a throw or by a rejected promise.
C19_ParallelReportsAll ==
    (rx = "lib" /\ rxConfig.parallelExecution /\ Settled
       /\ Pending(hstate) = {}) =>
      /\ Len(calls) = Len(allHandlers)
      /\ \A i \in 1..Len(allHandlers) :
           Cardinality(ErrCallsFor(i)) = IF Failed(i) THEN 1 ELSE 0

\* C20 - Parallel dispatch joins all work: in parallel mode no launched
\* handler is still running once executeHandlers has settled.
C20_ParallelJoins ==
    (rx = "lib" /\ rxConfig.parallelExecution /\ Settled) =>
      Pending(hstate) = {}

Range(q) == {q[i] : i \in DOMAIN q}
\* the handler functions invoked by the dispatch
Invoked == {allHandlers[calls[i]] : i \in DOMAIN calls}

\* C21 - Dispatch routing: when executeHandlers has settled, the handlers
\* invoked are exactly the handlers registered for payload.event together
\* with all wildcard handlers (so wildcards run for every event, handlers of
\* other events never run), and each was called with (payload.data, payload)
\* (here even with an error callback that always returns normally).
C21_DispatchRouting ==
    (rx = "lib" /\ Settled /\ \A k \in DOMAIN errCalls : ~errCalls[k].threw) =>
      LET p == JSONParse(req.body).value
      IN  /\ Invoked = Range(HandlersGet(p.event)) \cup Range(wildcardHandlers)
          /\ \A i \in DOMAIN args : args[i] = <<p.data, p>>

AllEvents == RegEvents \cup RxEvents

\* C22 - Unregistering is a no-op when absent: a call off(event, h) for a
\* handler not registered under that event (an event without entry
\* included), or offAll(h) for a wildcard handler not registered, leaves the
\* list of handlers dispatched for every event, and its order, unchanged.
C22_OffAbsentNoOp ==
    [][\A h \in HandlerIds :
         /\ \A e \in RegEvents :
              (off(e, h) /\ h \notin Range(HandlersGet(e))) =>
                \A ev \in AllEvents : AllHandlers(ev)' = AllHandlers(ev)
         /\ (offAll(h) /\ h \notin Range(wildcardHandlers)) =>
                \A ev \in AllEvents : AllHandlers(ev)' = AllHandlers(ev)]_vars

\* one registration and one unregistration that found nothing were made (in
\* two calls), and the dispatch that followed ran the registered handler
C22_Witness ==
    /\ rx = "lib"
    /\ regOps = 2
    /\ DOMAIN handlers = {"order.created"}
    /\ handlers["order.created"] = <<"h1">>
    /\ wildcardHandlers = <<>>
    /\ dispatch = "resolved"
    /\ calls = <<1>>

\* the number of invocations made of the handler at position i of allHandlers
TimesCalled(i) == Cardinality({k \in DOMAIN calls : calls[k] = i})

\* C23 - End-to-end round trip: a request produced by Send(event, data) of
\* the context-aware client and delivered unmodified, within the freshness
\* window, to a WebhookHandler with the same secret is answered 200, and each
\* handler registered for the event is invoked exactly once with the data
\* that was sent (here even with an error callback that always returns
\* normally).
C23_RoundTrip ==
    (client = "ctx" /\ rx = "lib" /\ Responded /\ served = Len(requests)
       /\ served > 0
       /\ \A k \in DOMAIN errCalls : ~errCalls[k].threw) =>
      /\ rxResp.status = 200
      /\ allHandlers = AllHandlers(jsonData[2])
      /\ \A i \in DOMAIN allHandlers : TimesCalled(i) = 1
      /\ \A i \in DOMAIN args : args[i][1] = jsonData[6]

\* C24 - Timestamp header format (every sender of the enveloped scheme): the
\* svix-timestamp header of every request is the signing timestamp, the
\* instant passed to the signer, rendered as an integer count of unix seconds.
C24_TimestampUnixSeconds ==
    \A i \in DOMAIN requests :
      requests[i].ts = <<"unix", Unix(signingTimestamp)>>

-----------------------------------------------------------------------------
(* Several sends in one process *)

MaxSends == 2           \* sends of one process that draw a message id
IDsRetries == 2         \* largest MaxRetries where several sends are made

\* The caller, holding the Response of the previous call, calls Send again
\* on the same Client, with a fresh context: the locals of SendPayload and
\* sendWithRetry start anew, the clock and uuid's source are the process's.
SendAgain ==
    /\ client \in {"ctx", "cfg"}
    /\ pc = "done"
    /\ Len(ids) < MaxSends
    /\ pc' = "idle"
    /\ ctxDone' = FALSE
    /\ jsonData' = <<>>
    /\ msgID' = <<>>
    /\ signingTimestamp' = 0
    /\ signature' = <<>>
    /\ lastErr' = Nil
    /\ lastStatusCode' = 0
    /\ opErr' = [err |-> Nil, permanent |-> FALSE]
    /\ retErr' = Nil
    /\ numTries' = 0
    /\ currentInterval' = 0
    /\ timer' = IdleTimer
    /\ attempt' = 0
    /\ requests' = <<>>
    /\ outcomes' = <<>>
    /\ sleeps' = <<>>
    /\ resp' = NoResponse
    /\ fatal' = "none"
    /\ signCalls' = 0
    /\ UNCHANGED <<rxVars, peer, ids, client, config, now, nextUUID>>

NextIDs == Next \/ SendAgain

InitIDs == Init /\ config.MaxRetries <= IDsRetries

SpecIDs == InitIDs /\ [][NextIDs]_vars

\* C25 - Message IDs are process-unique (every sender): any two distinct
\* sends of one process, two sends started at the same clock reading
\* included, carry different message ids.
C25_MessageIDsUnique ==
    \A i, j \in DOMAIN ids : i # j => ids[i] # ids[j]

-----------------------------------------------------------------------------
(* Several requests to one receiver *)

MaxServed == 2          \* requests served by one receiver

\* the request passed verification and its payload was handed on
Accepted == rxPayload # JSONParse(Malformed).value

\* Envelopes a sender made: every header present, signed over their own body
\* with the receiver's secret or another one, at the time of the first
\* delivery or as long before it as the receiver tolerates.
ReplayRequests ==
    IF rx \in SvixKinds
    THEN { r \in SvixRequests :
             /\ r.id \in RxIds
             /\ r.ts \in { <<"unix", Unix(RecvTime)>>,
                           <<"unix", Unix(RecvTime) - WebhookTolerance>> }
             /\ r.sig \in { Sign(k, r.id, ParseInt(r.ts).v * Second, r.body) :
                              k \in Secrets \cup {WrongSecret} } }
    ELSE { r \in SimpleRequests :
             /\ r.ts \in { <<"iso", RecvTime>>, <<"iso", RecvTime - FreshnessWindow>> }
             /\ r.sig \in { HmacHex(k, r.body) : k \in Secrets \cup {WrongSecret} } }

\* The route receives a request, the first one or, once it has answered,
\* another: the same envelope again or a different one, at once or MaxDelay
\* later.  Each call of the request callback starts with fresh locals.
ReceiveNext ==
    /\ rx # "none"
    /\ rxpc \in {"idle", "responded"}
    /\ served < MaxServed
    /\ prev' = IF rxpc = "idle" THEN prev
               ELSE [req |-> req, rnow |-> rnow, accepted |-> Accepted,
                     allHandlers |-> allHandlers, called |-> calls # <<>>]
    /\ \E r \in ReplayRequests : req' = r
    /\ \E d \in {0, MaxDelay} : rnow + d <= RecvTime + MaxDelay /\ rnow' = rnow + d
    /\ served' = served + 1
    /\ rxpc' = "headers"
    /\ bodyRead' = FALSE
    /\ verifyCalls' = 0
    /\ rxPayload' = JSONParse(Malformed).value
    /\ allHandlers' = <<>>
    /\ idx' = 0
    /\ hstate' = <<>>
    /\ calls' = <<>>
    /\ args' = <<>>
    /\ errCalls' = <<>>
    /\ dispatch' = "none"
    /\ rxResp' = NoRxResp
    /\ UNCHANGED <<txVars, rx, rxConfig, handlers, wildcardHandlers, regOps>>

InitReplay == TxInit({"none"}) /\ RxInit({"lib"} \cup InlineKinds)

NextReplay ==
    \/ (rxpc = "idle" /\ regOps = 0 /\ \E e \in RegEvents, h \in HandlerIds : on(e, h))
    \/ CheckHeaders
    \/ ReadBody
    \/ Verify
    \/ executeHandlers
    \/ SeqCall
    \/ SeqSettle
    \/ SeqDone
    \/ ParCall
    \/ \E i \in DOMAIN hstate : ParSettle(i)
    \/ ParDone
    \/ CheckSimple
    \/ VerifySimple
    \/ VerifyInline
    \/ Route
    \/ SettleInline
    \/ ReceiveNext

SpecReplay == InitReplay /\ [][NextReplay]_vars

\* the timestamp header of r is within the receiver's freshness window at tnow
WithinWindow(r, tnow) ==
    IF rx \in SvixKinds
    THEN /\ Unix(tnow) - r.ts[2] <= WebhookTolerance
         /\ r.ts[2] - Unix(tnow) <= WebhookTolerance
    ELSE /\ tnow - r.ts[2] <= FreshnessWindow
         /\ r.ts[2] - tnow <= FreshnessWindow

\* C26 - Verification is stateless (WebhookHandler and the inline routes):
\* the same envelope delivered again at the same time gets the same verdict
\* as before, an accepted envelope delivered again within the freshness
\* window is accepted again and dispatched to the same handlers again, and
\* no earlier request changes this.
C26_StatelessVerification ==
    (rx # "none" /\ Responded /\ served > 1 /\ prev.req = req) =>
      /\ prev.rnow = rnow => (Accepted <=> prev.accepted)
      /\ (prev.accepted /\ WithinWindow(req, rnow)) =>
           /\ Accepted
           /\ allHandlers = prev.allHandlers
           /\ (calls # <<>>) <=> prev.called

C26_Witness ==
    /\ rx = "lib"
    /\ Responded
    /\ served = 2
    /\ prev.req = req
    /\ prev.accepted
    /\ prev.rnow < rnow
    /\ Accepted
    /\ calls = <<1>>
    /\ rxResp.status = 200

InvalidSignature == [status |-> 401, error |-> "Invalid signature"]

\* C27 - Signature comparison result (verifySignature of the inline routes):
\* the signature check passes if and only if the supplied signature is
\* byte for byte the lowercase hex HMAC-SHA-256 of the body under the secret;
\* a signature of any other length is answered as an invalid signature, the
\* check does not throw.
C27_SignatureComparison ==
    (rx \in SimpleKinds /\ verifyCalls = 1) =>
      /\ rxResp = InvalidSignature <=> req.sig # HmacHex(rxConfig.secret, req.body)
      /\ ByteLength(req.sig) # ByteLength(HmacHex(rxConfig.secret, req.body)) =>
           rxResp = InvalidSignature

C27_Witness ==
    /\ rx \in SimpleKinds
    /\ verifyCalls = 1
    /\ req.sig = <<"hex", 32, rxConfig.secret, req.body>>
    /\ rxResp = InvalidSignature

-----------------------------------------------------------------------------
(* Construction of a sender or of a receiver *)

TargetURLs == {"", "http://receiver/webhook"}
MaybeSecrets == Secrets \cup {""}

\* Mutant: an empty secret is let through.
NewClientErr_SecretOptional(targetURL, secret, signerOk) ==
    IF targetURL = "" THEN "webhook: targetURL is required"
    ELSE IF ~signerOk THEN "webhook: failed to create signer"
    ELSE ""

\* the error NewClient returns, "" for nil; svix.NewWebhook may refuse the
\* secret
NewClientErr(targetURL, secret, signerOk) ==
    IF targetURL = "" THEN "webhook: targetURL is required"
    ELSE IF secret = "" THEN "webhook: secret is required"
    ELSE IF ~signerOk THEN "webhook: failed to create signer"
    ELSE ""

\* NewClient(targetURL, secret, opts...) is called: on an error the caller
\* holds the error and no *Client, so client is that error from then on.
CallNewClient(targetURL, secret) ==
    /\ client = "new"
    /\ \E signerOk \in BOOLEAN, n \in 0..E2ERetries, mi \in MaxIntervals, u \in BOOLEAN :
         LET err == NewClientErr(targetURL, secret, signerOk)
         IN  IF err # ""
             THEN client' = err /\ UNCHANGED config
             ELSE client' = "ctx" /\ config' = NewClient(secret, n, mi, u)
    /\ UNCHANGED <<rxVars, peer, ids, ctxDone, now, pc, jsonData, msgID, signingTimestamp,
                   signature, lastErr, lastStatusCode, opErr, retErr, numTries,
                   currentInterval, timer, attempt, requests, outcomes, sleeps,
                   resp, fatal, nextUUID, signCalls>>

SecretRequired == "WebhookHandler: secret is required"

\* new WebhookHandler({secret, parallelExecution}) is called: when the
\* constructor throws there is no object, rx is the error thrown.
CallNewWebhookHandler(secret, parallel) ==
    /\ rx = "new"
    /\ IF secret = ""
       THEN rx' = SecretRequired /\ UNCHANGED rxConfig
       ELSE rx' = "lib" /\ rxConfig' = NewWebhookHandler(secret, parallel)
    /\ UNCHANGED <<txVars, prev, served, handlers, wildcardHandlers, regOps, RequestVars>>

\* a process that is about to construct a sender, or a receiver
InitNew ==
    \/ TxInit({"new"}) /\ RxInit({"none"})
    \/ TxInit({"none"}) /\ RxInit({"new"})

NextNew ==
    \/ \E u \in TargetURLs, s \in MaybeSecrets : CallNewClient(u, s)
    \/ \E s \in MaybeSecrets, p \in BOOLEAN : CallNewWebhookHandler(s, p)
    \/ NextCtx
    \/ (rxpc = "idle" /\ regOps < E2ERegOps
          /\ \E e \in RegEvents, h \in HandlerIds : on(e, h))
    \/ (rxpc = "idle" /\ regOps < E2ERegOps /\ \E h \in HandlerIds : onAll(h))
    \/ Receive
    \/ CheckHeaders
    \/ ReadBody
    \/ Verify
    \/ executeHandlers
    \/ SeqCall
    \/ SeqSettle
    \/ SeqDone
    \/ ParCall
    \/ \E i \in DOMAIN hstate : ParSettle(i)
    \/ ParDone

SpecNew == InitNew /\ [][NextNew]_vars

\* construction was attempted and gave no object
NoSender == client \notin {"new", "none", "ctx", "cfg"}
NoReceiver == rx \notin ({"new", "none", "lib"} \cup InlineKinds)

\* C28 - Construction fails fast: NewClient with an empty targetURL or
\* secret returns an error and no client, new WebhookHandler with an empty
\* secret throws 'WebhookHandler: secret is required'; after either there is
\* no usable sender or receiver, and no HTTP request and no handler
\* registration happens through it.
C28_ConstructionFailsFast ==
    [][/\ \A u \in TargetURLs, s \in MaybeSecrets :
            (CallNewClient(u, s) /\ (u = "" \/ s = "")) =>
              client' \in {"webhook: targetURL is required", "webhook: secret is required"}
       /\ \A p \in BOOLEAN :
            CallNewWebhookHandler("", p) => rx' = SecretRequired
       /\ NoSender => /\ client' = client
                      /\ requests' = <<>>
                      /\ pc' = "idle"
       /\ NoReceiver => /\ rx' = rx
                        /\ handlers' = handlers
                        /\ wildcardHandlers' = wildcardHandlers
                        /\ regOps' = 0
                        /\ served' = 0]_vars

C28_Witness ==
    /\ client = "webhook: secret is required"
    /\ requests = <<>>
    /\ pc = "idle"

-----------------------------------------------------------------------------
(* Two SendPayload calls running concurrently on one Client.  The first call
   is the goroutine of the actions above; the second has its own locals, kept
   in peer: payload, msgID, timestamp and signature of SendPayload, lastErr,
   lastStatusCode and the ExponentialBackOff of sendWithRetry, and its own
   ctx. *)

\* what the receiver answers while two calls are running
TwoOutcomes == {NetErr, Status(200), Status(400), Status(500)}

\* Mutant: lastErr and lastStatusCode are one pair shared by all calls.
PeerClassify_Shared(o) == Classify(o, lastErr, lastStatusCode)

\* operation of the second call: the closure captures the lastErr and
\* lastStatusCode declared in its own sendWithRetry
PeerClassify(o) == Classify(o, peer.lastErr, peer.lastStatusCode)

\* Send / SendPayload of the second call, up to the first operation(): the
\* payload marshals and Sign succeeds; uuid's source is the process's
PeerSendPayload ==
    /\ client = "ctx"
    /\ peer.pc = "idle"
    /\ peer' = [peer EXCEPT !.msgID = <<"msg_", nextUUID>>,
                            !.currentInterval = InitialInterval,
                            !.pc = "operation"]
    /\ nextUUID' = nextUUID + 1
    /\ ids' = Append(ids, <<"msg_", nextUUID>>)
    /\ UNCHANGED <<rxVars, client, config, ctxDone, now, pc, jsonData, msgID,
                   signingTimestamp, signature, lastErr, lastStatusCode, opErr,
                   retErr, numTries, currentInterval, timer, attempt, requests,
                   outcomes, sleeps, resp, fatal, signCalls>>

\* one operation() of the second call, from http.NewRequestWithContext to
\* the classified result of c.http.Do
PeerOperation ==
    /\ client = "ctx"
    /\ peer.pc = "operation"
    /\ IF ~config.urlValid \/ peer.ctxDone
       THEN peer' = [peer EXCEPT
                       !.lastErr = Err(ErrNetwork,
                                       IF ~config.urlValid THEN "new request"
                                       ELSE "context canceled", 0),
                       !.opErr = [err |-> Err(ErrNetwork,
                                              IF ~config.urlValid THEN "new request"
                                              ELSE "context canceled", 0),
                                  permanent |-> FALSE],
                       !.outcomes = Append(@, NetErr),
                       !.pc = "Retry"]
       ELSE \E o \in TwoOutcomes :
              LET c == PeerClassify(o)
              IN  peer' = [peer EXCEPT
                             !.lastErr = c.lastErr,
                             !.lastStatusCode = c.lastStatusCode,
                             !.opErr = IF c.ret = "nil"
                                       THEN [err |-> Nil, permanent |-> FALSE]
                                       ELSE [err |-> c.lastErr,
                                             permanent |-> c.ret = "permanent"],
                             !.outcomes = Append(@, o),
                             !.pc = "Retry"]
    /\ UNCHANGED <<rxVars, ids, client, config, ctxDone, now, pc, jsonData, msgID,
                   signingTimestamp, signature, lastErr, lastStatusCode, opErr,
                   retErr, numTries, currentInterval, timer, attempt, requests,
                   outcomes, sleeps, resp, fatal, nextUUID, signCalls>>

\* backoff.Retry of the second call after operation() returned
PeerRetry ==
    /\ client = "ctx"
    /\ peer.pc = "Retry"
    /\ peer' =
         IF peer.opErr.err = Nil
         THEN [peer EXCEPT !.retErr = Nil, !.pc = "return"]
         ELSE IF peer.opErr.permanent
         THEN [peer EXCEPT !.retErr = peer.opErr.err, !.pc = "return"]
         ELSE IF NextBackOff(peer.ctxDone, MaxTries(config.MaxRetries),
                             peer.numTries) = "Stop"
         THEN [peer EXCEPT !.retErr = IF peer.ctxDone THEN CtxErr
                                      ELSE peer.opErr.err,
                           !.pc = "return"]
         ELSE [peer EXCEPT !.numTries = @ + 1,
                           !.currentInterval =
                              IncrementCurrentInterval(@, config.MaxInterval),
                           !.pc = "timer"]
    /\ UNCHANGED <<rxVars, ids, client, config, ctxDone, now, pc, jsonData, msgID,
                   signingTimestamp, signature, lastErr, lastStatusCode, opErr,
                   retErr, numTries, currentInterval, timer, attempt, requests,
                   outcomes, sleeps, resp, fatal, nextUUID, signCalls>>

\* the select of backoff.Retry in the second call: its timer fires, or its
\* own context is done
PeerWake ==
    /\ client = "ctx"
    /\ peer.pc = "timer"
    /\ \/ peer' = [peer EXCEPT !.pc = "operation"]
       \/ /\ peer.ctxDone
          /\ peer' = [peer EXCEPT !.retErr = CtxErr, !.pc = "return"]
    /\ UNCHANGED <<rxVars, ids, client, config, ctxDone, now, pc, jsonData, msgID,
                   signingTimestamp, signature, lastErr, lastStatusCode, opErr,
                   retErr, numTries, currentInterval, timer, attempt, requests,
                   outcomes, sleeps, resp, fatal, nextUUID, signCalls>>

\* the second sendWithRetry builds its Response
PeerReturn ==
    /\ client = "ctx"
    /\ peer.pc = "return"
    /\ peer' = [peer EXCEPT
                  !.resp = ResponseOf(peer.retErr, peer.lastErr,
                                      peer.lastStatusCode, peer.msgID),
                  !.pc = "done"]
    /\ UNCHANGED <<rxVars, ids, client, config, ctxDone, now, pc, jsonData, msgID,
                   signingTimestamp, signature, lastErr, lastStatusCode, opErr,
                   retErr, numTries, currentInterval, timer, attempt, requests,
                   outcomes, sleeps, resp, fatal, nextUUID, signCalls>>

\* the caller of the second call cancels that call's context
PeerCancel ==
    /\ client = "ctx"
    /\ ~peer.ctxDone
    /\ peer.pc \notin {"idle", "done"}
    /\ peer' = [peer EXCEPT !.ctxDone = TRUE]
    /\ UNCHANGED <<rxVars, ids, client, config, ctxDone, now, pc, jsonData, msgID,
                   signingTimestamp, signature, lastErr, lastStatusCode, opErr,
                   retErr, numTries, currentInterval, timer, attempt, requests,
                   outcomes, sleeps, resp, fatal, nextUUID, signCalls>>

\* c.http.Do of the first call returns
DoTwo == \E o \in TwoOutcomes : DoReturns(o)

InitTwo ==
    /\ TxInit({"ctx"})
    /\ RxInit({"none"})
    /\ config.MaxRetries \in 1..IDsRetries
    /\ config.MaxInterval = DefaultMaxInterval

NextTwo ==
    \/ SendPayload
    \/ sendWithRetry
    \/ operation
    \/ DoTwo
    \/ Retry
    \/ TimerFires
    \/ WakeTimer
    \/ WakeCancelled
    \/ Return
    \/ Cancel
    \/ PeerSendPayload
    \/ PeerOperation
    \/ PeerRetry
    \/ PeerWake
    \/ PeerReturn
    \/ PeerCancel

SpecTwo == InitTwo /\ [][NextTwo]_vars

\* the locals of the first call
FirstLocals == <<pc, ctxDone, msgID, lastErr, lastStatusCode, opErr, retErr, numTries,
                 currentInterval, timer, outcomes, resp>>

\* the status codes among the outcomes of a call's attempts
CodesOf(outs) == {outs[i].code : i \in DOMAIN outs}

\* Response r of a call with message id `id` reflects the attempts outs
Reflects(r, outs, id) ==
    /\ r.StatusCode \in CodesOf(outs) \cup {0}
    /\ r.Error.status \in CodesOf(outs) \cup {0}
    /\ r.Success => /\ outs # <<>>
                    /\ Last(outs).kind = "status"
                    /\ Last(outs).code < 400
                    /\ r.StatusCode = Last(outs).code
                    /\ r.MessageID = id

\* C30 - Concurrent sends are independent (context-aware client): of two
\* SendPayload calls running concurrently on one Client, a step of one call,
\* the cancellation of its context included, leaves the attempt count, last
\* error, last status code, backoff state and result of the other call
\* untouched, and each Response reflects only the attempts of its own call.
C30_ConcurrentSendsIndependent ==
    /\ [][/\ peer' # peer => FirstLocals' = FirstLocals
          /\ FirstLocals' # FirstLocals => peer' = peer]_vars
    /\ [](client = "ctx" =>
            /\ pc = "done" => Reflects(resp, outcomes, msgID)
            /\ peer.pc = "done" => Reflects(peer.resp, peer.outcomes, peer.msgID))

C30_Witness ==
    /\ client = "ctx"
    /\ pc = "done"
    /\ ctxDone
    /\ ~resp.Success
    /\ outcomes = <<Status(500)>>
    /\ peer.pc = "done"
    /\ ~peer.ctxDone
    /\ peer.outcomes = <<NetErr, Status(200)>>
    /\ peer.resp.Success
    /\ peer.resp.StatusCode = 200

\* the HTTP status an attempt received, 0 when it failed without one
StatusReceived(o) == IF o.kind = "neterr" THEN 0 ELSE o.code

\* C31 - Error and status code come from the same attempt (context-aware
\* client): in every failure Response of a send that made an attempt, the
\* StatusCode is the status received on the attempt that produced the Error,
\* the last one, and 0 when that attempt failed without receiving a status.
C31_ErrorAndStatusSameAttempt ==
    (client = "ctx" /\ Returned /\ ~resp.Success /\ outcomes # <<>>) =>
      resp.StatusCode = StatusReceived(Last(outcomes))

\* C32 - Result well-formedness (both clients): every Response returned by
\* Send/SendPayload has either Success=true and a nil Error, or Success=false
\* and a non-nil Error, for every configuration NewClient accepts.
C32_ResultWellFormed ==
    Returned =>
      \/ resp.Success /\ resp.Error = Nil
      \/ ~resp.Success /\ resp.Error # Nil

\* C33 - At least one attempt (both clients): a SendPayload whose
\* serialization and signing succeed makes at least one attempt before it
\* returns, for every configuration NewClient accepts; in the context-aware
\* client MaxRetries = 0 and MaxRetries = 1 both give exactly one attempt
\* when that attempt fails retryably.
C33_AtLeastOneAttempt ==
    (Returned /\ fatal = "none") =>
      /\ Len(outcomes) >= 1
      /\ (client = "ctx" /\ config.MaxRetries \in {0, 1} /\ Retryable(outcomes[1])) =>
           Len(outcomes) = 1

\* C34 - Message ID in every terminal result (both clients): every Response
\* returned after signing succeeded, with Success true or false, carries a
\* MessageID equal to the svix-id header sent on the attempts of that send.
C34_MessageIDInEveryResult ==
    (Returned /\ fatal = "none" /\ requests # <<>>) =>
      /\ resp.MessageID = msgID
      /\ \A i \in DOMAIN requests : requests[i].id = resp.MessageID

\* C35 - No sleep after the final attempt (both clients): in a send that made
\* an attempt and was not cancelled, a backoff sleep occurs only between two
\* consecutive attempts: the number of sleeps is the number of attempts minus
\* one, and nothing is slept after the last attempt.
C35_NoSleepAfterFinalAttempt ==
    (Returned /\ fatal = "none" /\ config.urlValid /\ ~ctxDone /\ outcomes # <<>>) =>
      Len(sleeps) = Len(outcomes) - 1

-----------------------------------------------------------------------------
(* Registration while requests are served: on, off, onAll and offAll are
   called by a handler of the dispatch in progress, or by other code that
   runs while executeHandlers awaits a handler. *)

NextSnapshot ==
    \/ (regOps < E2ERegOps /\ \E e \in RegEvents, h \in HandlerIds : on(e, h))
    \/ (regOps < E2ERegOps /\ \E e \in RegEvents, h \in HandlerIds : off(e, h))
    \/ (regOps < E2ERegOps /\ \E h \in HandlerIds : onAll(h))
    \/ (regOps < E2ERegOps /\ \E h \in HandlerIds : offAll(h))
    \/ (served = 0 /\ ReceiveNext)
    \/ CheckHeaders
    \/ ReadBody
    \/ Verify
    \/ executeHandlers
    \/ SeqCall
    \/ SeqSettle
    \/ SeqDone
    \/ ParCall
    \/ \E i \in DOMAIN hstate : ParSettle(i)
    \/ ParDone

SpecSnapshot == InitLib /\ [][NextSnapshot]_vars

C37_CallbackFailureIsolated ==
    (rx = "lib" /\ Settled
       /\ \E k \in DOMAIN errCalls : errCalls[k].threw
       /\ (rxConfig.parallelExecution => \A i \in DOMAIN hstate : hstate[i] # "threw")) =>
      /\ dispatch = "resolved"
      /\ calls = [i \in 1..Len(allHandlers) |-> i]

\* a handler call that has finished: it returned, threw, or its promise
\* fulfilled or rejected
Finished(i) == hstate[i] \notin {"new", "pending"}

\* C38 - Response follows dispatch (WebhookHandler.handler()): the success
\* response of a verified request is produced only after executeHandlers has
\* settled: the dispatch has resolved, every handler of its list was invoked
\* and has completed or failed, and none is still pending.
C38_ResponseFollowsDispatch ==
    (rx = "lib" /\ Responded /\ rxResp.status = 200) =>
      /\ dispatch = "resolved"
      /\ Len(calls) = Len(allHandlers)
      /\ \A i \in DOMAIN hstate : Finished(i)
      /\ Pending(hstate) = {}

\* a parallel dispatch of two handlers, one of which failed after the map
\* returned, answered with the success response
C38_Witness ==
    /\ rx = "lib" /\ rxConfig.parallelExecution
    /\ Responded /\ rxResp.status = 200
    /\ Len(allHandlers) = 2
    /\ errCalls # <<>>

-----------------------------------------------------------------------------
(* go-webhook-server: the trigger routes serve one request after another *)

InitTrigger == TxInit({"srv"}) /\ RxInit({"none"})

NextTrigger ==
    \/ PostTrigger
    \/ PostTriggerEvent
    \/ \E o \in Outcomes : DoSrv(o)

SpecTrigger == InitTrigger /\ [][NextTrigger]_vars

\* the route has answered a request for which it forwarded a webhook
Forwarded == client = "srv" /\ pc = "done" /\ lastErr.wraps \notin {"svix", "json"}

\* C39 - Trigger endpoints report the delivery outcome (go-webhook-server):
\* a route answers 200 'Webhook sent!' only when the receiver answered the
\* forwarded webhook with a status in [200,400); when the receiver answered
\* 4xx or 5xx, or the request failed, the route answers with an error status.
C39_TriggerReportsOutcome ==
    Forwarded =>
      /\ resp.status = 200 => InSuccessRange(Last(outcomes))
      /\ (Last(outcomes).kind = "neterr" \/ Last(outcomes).code >= 400) => resp.status >= 400

====
